---- MODULE Spec2Model ----
(***************************************************************************)
(* chrome-claude: the definition-resolution-and-execution pipeline.        *)
(*                                                                         *)
(*   validator  coerceParams / validateParams          (part_003 260-473)  *)
(*   runner     runWorkflow / executeWorkflow          (prompt-builder.ts  *)
(*              runInBackground / runForeground         244-482)           *)
(*   cli        the run command                        (part_003 500-540)  *)
(*                                                                         *)
(* JavaScript strings are sequences of one-character strings, so that      *)
(* Number(), trim(), split() and the comparisons with 'true' / 'false'     *)
(* are computed and not assumed.  A JavaScript value is a record with the  *)
(* same fields for every type, so that any two values can be compared.     *)
(***************************************************************************)
EXTENDS Integers, Sequences, FiniteSets, TLC

(***************************************************************************)
(* JavaScript values                                                       *)
(***************************************************************************)

\* t: the runtime type tag; k: the kind of a number ("finite", "NaN",
\* "Infinity", "-Infinity"); n: a finite number; b: a boolean; s: the
\* characters of a string; l: the elements of an array.
Val(t, k, n, b, s, l) ==
    [t |-> t, k |-> k, n |-> n, b |-> b, s |-> s, l |-> l]

Undefined == Val("undefined", "", 0, FALSE, <<>>, <<>>)
Null      == Val("null", "", 0, FALSE, <<>>, <<>>)
Str(s)    == Val("string", "", 0, FALSE, s, <<>>)
Num(n)    == Val("number", "finite", n, FALSE, <<>>, <<>>)
NaN       == Val("number", "NaN", 0, FALSE, <<>>, <<>>)
Infinity  == Val("number", "Infinity", 0, FALSE, <<>>, <<>>)
NegInfinity == Val("number", "-Infinity", 0, FALSE, <<>>, <<>>)
Bool(b)   == Val("boolean", "", 0, b, <<>>, <<>>)
Arr(l)    == Val("array", "", 0, FALSE, <<>>, l)
\* A plain object; its own properties play no part in the validator.
Obj       == Val("object", "", 0, FALSE, <<>>, <<>>)

\* typeof value
TypeOf(v) ==
    CASE v.t = "null"  -> "object"
      [] v.t = "array" -> "object"
      [] OTHER         -> v.t

IsArray(v) == v.t = "array"

(***************************************************************************)
(* Strings                                                                 *)
(***************************************************************************)

Digits == {"0", "1", "2", "3", "4", "5", "6", "7", "8", "9"}

DigitVal(c) ==
    CASE c = "0" -> 0 [] c = "1" -> 1 [] c = "2" -> 2 [] c = "3" -> 3
      [] c = "4" -> 4 [] c = "5" -> 5 [] c = "6" -> 6 [] c = "7" -> 7
      [] c = "8" -> 8 [] c = "9" -> 9

DigitChar(d) ==
    CASE d = 0 -> "0" [] d = 1 -> "1" [] d = 2 -> "2" [] d = 3 -> "3"
      [] d = 4 -> "4" [] d = 5 -> "5" [] d = 6 -> "6" [] d = 7 -> "7"
      [] d = 8 -> "8" [] d = 9 -> "9"

WhiteSpace == {" ", "\t", "\n"}

S_true        == <<"t", "r", "u", "e">>
S_false       == <<"f", "a", "l", "s", "e">>
S_null        == <<"n", "u", "l", "l">>
S_NaN         == <<"N", "a", "N">>
S_Infinity    == <<"I", "n", "f", "i", "n", "i", "t", "y">>
S_undefined   == <<"u", "n", "d", "e", "f", "i", "n", "e", "d">>
S_objectObject ==
    <<"[", "o", "b", "j", "e", "c", "t", " ", "O", "b", "j", "e", "c", "t", "]">>

\* String.prototype.trim
Trim(s) ==
    LET keep == {i \in 1..Len(s) : s[i] \notin WhiteSpace}
    IN  IF keep = {} THEN <<>>
        ELSE LET lo == CHOOSE i \in keep : \A j \in keep : i <= j
                 hi == CHOOSE i \in keep : \A j \in keep : j <= i
             IN  SubSeq(s, lo, hi)

\* String.prototype.split(sep) for a one-character separator
RECURSIVE Split(_, _)
Split(s, sep) ==
    LET at == {i \in 1..Len(s) : s[i] = sep}
    IN  IF at = {} THEN <<s>>
        ELSE LET i == CHOOSE x \in at : \A y \in at : x <= y
             IN  <<SubSeq(s, 1, i - 1)>> \o Split(SubSeq(s, i + 1, Len(s)), sep)

IsDigits(s) == Len(s) > 0 /\ \A i \in 1..Len(s) : s[i] \in Digits

RECURSIVE DigitsValue(_)
DigitsValue(s) ==
    IF s = <<>> THEN 0
    ELSE 10 * DigitsValue(SubSeq(s, 1, Len(s) - 1)) + DigitVal(s[Len(s)])

RECURSIVE NatToStr(_)
NatToStr(n) ==
    IF n < 10 THEN <<DigitChar(n)>>
    ELSE NatToStr(n \div 10) \o <<DigitChar(n % 10)>>

\* The StringToNumber conversion of Number(string): surrounding white space is
\* dropped, the empty string is 0, the Infinity literals are the infinities, an
\* optionally signed run of decimal digits is that integer, anything else is
\* NaN.  (Fractions, exponents and the 0x/0o/0b forms are outside the strings
\* the model draws.)
StringToNumber(s) ==
    LET t    == Trim(s)
        sign == IF t # <<>> /\ t[1] \in {"+", "-"} THEN t[1] ELSE ""
        body == IF sign = "" THEN t ELSE SubSeq(t, 2, Len(t))
    IN  IF t = <<>> THEN Num(0)
        ELSE IF body = S_Infinity
             THEN (IF sign = "-" THEN NegInfinity ELSE Infinity)
        ELSE IF IsDigits(body)
             THEN Num(IF sign = "-" THEN 0 - DigitsValue(body) ELSE DigitsValue(body))
        ELSE NaN

\* Number.prototype.toString
NumberToString(v) ==
    CASE v.k = "NaN"       -> S_NaN
      [] v.k = "Infinity"  -> S_Infinity
      [] v.k = "-Infinity" -> <<"-">> \o S_Infinity
      [] OTHER -> IF v.n < 0 THEN <<"-">> \o NatToStr(0 - v.n) ELSE NatToStr(v.n)

\* String(value)
RECURSIVE StringOf(_)
RECURSIVE JoinValues(_, _)
StringOf(v) ==
    CASE v.t = "string"    -> v.s
      [] v.t = "number"    -> NumberToString(v)
      [] v.t = "boolean"   -> (IF v.b THEN S_true ELSE S_false)
      [] v.t = "undefined" -> S_undefined
      [] v.t = "null"      -> S_null
      [] v.t = "array"     -> JoinValues(v.l, <<",">>)
      [] OTHER             -> S_objectObject

\* Array.prototype.join: undefined and null elements join as the empty string
JoinValues(l, sep) ==
    IF l = <<>> THEN <<>>
    ELSE LET head == IF l[1].t \in {"undefined", "null"} THEN <<>> ELSE StringOf(l[1])
         IN  IF Len(l) = 1 THEN head
             ELSE head \o sep \o JoinValues(Tail(l), sep)

\* Number(value)
ToNumber(v) ==
    CASE v.t = "number"    -> v
      [] v.t = "string"    -> StringToNumber(v.s)
      [] v.t = "boolean"   -> (IF v.b THEN Num(1) ELSE Num(0))
      [] v.t = "null"      -> Num(0)
      [] v.t = "undefined" -> NaN
      [] OTHER             -> StringToNumber(StringOf(v))

\* isNaN(x), on a number
IsNaN(v) == v.k = "NaN"

\* Boolean(value)
ToBoolean(v) ==
    CASE v.t = "boolean"   -> v.b
      [] v.t = "string"    -> v.s # <<>>
      [] v.t = "number"    -> ~(v.k = "NaN" \/ (v.k = "finite" /\ v.n = 0))
      [] v.t \in {"undefined", "null"} -> FALSE
      [] OTHER             -> TRUE

\* JSON.parse(text): [ok |-> whether it returned, value |-> what it returned].
\* The texts the model draws are the empty object, the empty array, the
\* literals and the integers.
JsonParse(s) ==
    LET t    == Trim(s)
        neg  == t # <<>> /\ t[1] = "-"
        body == IF neg THEN SubSeq(t, 2, Len(t)) ELSE t
    IN  IF t = <<"{", "}">> THEN [ok |-> TRUE, value |-> Obj]
        ELSE IF t = <<"[", "]">> THEN [ok |-> TRUE, value |-> Arr(<<>>)]
        ELSE IF t = S_true THEN [ok |-> TRUE, value |-> Bool(TRUE)]
        ELSE IF t = S_false THEN [ok |-> TRUE, value |-> Bool(FALSE)]
        ELSE IF t = S_null THEN [ok |-> TRUE, value |-> Null]
        ELSE IF IsDigits(body) /\ (Len(body) = 1 \/ body[1] # "0")
             THEN [ok |-> TRUE,
                   value |-> Num(IF neg THEN 0 - DigitsValue(body) ELSE DigitsValue(body))]
        ELSE [ok |-> FALSE, value |-> Undefined]

(***************************************************************************)
(* Records (plain objects with string keys): a sequence of entries in      *)
(* insertion order, each key at most once.                                 *)
(***************************************************************************)

Keys(o) == [i \in 1..Len(o) |-> o[i].key]

HasKey(o, key) == \E i \in 1..Len(o) : o[i].key = key

\* o[key]
Get(o, key) ==
    IF HasKey(o, key)
    THEN o[CHOOSE i \in 1..Len(o) : o[i].key = key].value
    ELSE Undefined

\* o[key] = value
Put(o, key, value) ==
    IF HasKey(o, key)
    THEN [i \in 1..Len(o) |->
             IF o[i].key = key THEN [key |-> key, value |-> value] ELSE o[i]]
    ELSE Append(o, [key |-> key, value |-> value])

(***************************************************************************)
(* Validator (part_003 260-473)                                            *)
(*                                                                         *)
(* A ParamDefinition is [type, required, default]; default is Undefined    *)
(* when the definition has none.  A ParamsSchema is a record of them.      *)
(* A ValidationError is [param, message]; the message is kept in parts:    *)
(* its fixed text first, then what the code interpolates.                  *)
(***************************************************************************)

MsgRequired == "Required parameter missing: "
MsgUnknown  == "Unknown parameter: "
MsgExpected == "Expected "

\* The error kinds of the specification, read off the message text.
ErrKind(e) ==
    CASE e.message[1] = MsgRequired -> "MissingRequired"
      [] e.message[1] = MsgUnknown  -> "UnknownParameter"
      [] OTHER                      -> "TypeMismatch"

NoError == [param |-> <<>>, message |-> <<>>]

ExpectedGot(name, expected, got) ==
    [param |-> name, message |-> <<MsgExpected, expected, ", got ", got>>]

\* validateType: the error, or NoError for null
validateType(name, expectedType, value) ==
    CASE expectedType = "string" ->
           IF TypeOf(value) # "string"
           THEN ExpectedGot(name, "string", TypeOf(value))
           ELSE NoError
      [] expectedType = "number" ->
           IF TypeOf(value) # "number" /\ IsNaN(ToNumber(value))
           THEN ExpectedGot(name, "number", TypeOf(value))
           ELSE NoError
      [] expectedType = "boolean" ->
           IF TypeOf(value) # "boolean" /\ value # Str(S_true) /\ value # Str(S_false)
           THEN ExpectedGot(name, "boolean", TypeOf(value))
           ELSE NoError
      [] expectedType = "array" ->
           IF ~IsArray(value)
           THEN IF TypeOf(value) = "string" THEN NoError
                ELSE ExpectedGot(name, "array", TypeOf(value))
           ELSE NoError
      [] expectedType = "object" ->
           IF TypeOf(value) # "object" \/ IsArray(value)
           THEN IF TypeOf(value) = "string"
                THEN IF JsonParse(value.s).ok THEN NoError
                     ELSE ExpectedGot(name, "object", "invalid JSON")
                ELSE ExpectedGot(name, "object", TypeOf(value))
           ELSE NoError
      [] OTHER -> NoError

\* validateParam that takes the default before it looks at `required`
validateParam_DefaultFirst(name, def, value) ==
    IF value = Undefined \/ value = Null \/ value = Str(<<>>)
    THEN [value |-> def.default, error |-> NoError]
    ELSE LET typeError == validateType(name, def.type, value)
         IN  [value |-> value, error |-> typeError]

\* A validateParam for which the empty string is a value like any other
validateParam_EmptyIsValue(name, def, value) ==
    IF value = Undefined \/ value = Null
    THEN IF def.required
         THEN [value |-> Undefined,
               error |-> [param |-> name, message |-> <<MsgRequired, name>>]]
         ELSE [value |-> def.default, error |-> NoError]
    ELSE [value |-> value, error |-> validateType(name, def.type, value)]

\* validateParam: [value, error]; error is NoError when the result has none
validateParam(name, def, value) ==
    IF value = Undefined \/ value = Null \/ value = Str(<<>>)
    THEN IF def.required
         THEN [value |-> Undefined,
               error |-> [param |-> name, message |-> <<MsgRequired, name>>]]
         ELSE IF def.default # Undefined
              THEN [value |-> def.default, error |-> NoError]
              ELSE [value |-> Undefined, error |-> NoError]
    ELSE LET typeError == validateType(name, def.type, value)
         IN  IF typeError # NoError
             THEN [value |-> value, error |-> typeError]
             ELSE [value |-> value, error |-> NoError]

\* The first loop of validateParams, over Object.entries(workflow.params):
\* [errors, resolvedParams] after the first i entries
RECURSIVE CheckDefined(_, _, _)
CheckDefined(schema, params, i) ==
    IF i = 0 THEN [errors |-> <<>>, resolvedParams |-> <<>>]
    ELSE LET acc        == CheckDefined(schema, params, i - 1)
             name       == schema[i].key
             validation == validateParam(name, schema[i].value, Get(params, name))
         IN  IF validation.error # NoError
             THEN [acc EXCEPT !.errors = Append(@, validation.error)]
             ELSE [acc EXCEPT !.resolvedParams = Put(@, name, validation.value)]

\* The second loop of validateParams, over Object.keys(params): the errors
\* for the first i keys
RECURSIVE CheckUnknown(_, _, _)
CheckUnknown(schema, params, i) ==
    IF i = 0 THEN <<>>
    ELSE LET name == params[i].key
         IN  IF ~HasKey(schema, name)
             THEN Append(CheckUnknown(schema, params, i - 1),
                         [param |-> name, message |-> <<MsgUnknown, name>>])
             ELSE CheckUnknown(schema, params, i - 1)

\* validateParams, were it to return at the first error
validateParams_FirstError(workflow, params) ==
    LET defined == CheckDefined(workflow.params, params, Len(workflow.params))
        errors  == defined.errors
                     \o CheckUnknown(workflow.params, params, Len(params))
    IN  [valid          |-> Len(errors) = 0,
         errors         |-> IF errors = <<>> THEN <<>> ELSE <<errors[1]>>,
         resolvedParams |-> defined.resolvedParams]

\* validateParams(workflow, params)
validateParams(workflow, params) ==
    LET defined == CheckDefined(workflow.params, params, Len(workflow.params))
        errors  == defined.errors
                     \o CheckUnknown(workflow.params, params, Len(params))
    IN  [valid          |-> Len(errors) = 0,
         errors         |-> errors,
         resolvedParams |-> defined.resolvedParams]

\* A split at the commas that leaves the tokens as they are
SplitTrim_NoTrim(s) ==
    LET parts == Split(s, ",")
    IN  Arr([i \in 1..Len(parts) |-> Str(parts[i])])

\* value.split(',').map(s => s.trim())
SplitTrim(s) ==
    LET parts == Split(s, ",")
    IN  Arr([i \in 1..Len(parts) |-> Str(Trim(parts[i]))])

\* coerceValue(type, value)
coerceValue(type, value) ==
    IF value = Undefined \/ value = Null THEN value
    ELSE CASE type = "number" ->
                IF TypeOf(value) = "number" THEN value ELSE ToNumber(value)
           [] type = "boolean" ->
                IF TypeOf(value) = "boolean" THEN value
                ELSE IF value = Str(S_true) THEN Bool(TRUE)
                ELSE IF value = Str(S_false) THEN Bool(FALSE)
                ELSE Bool(ToBoolean(value))
           [] type = "array" ->
                IF IsArray(value) THEN value
                ELSE IF TypeOf(value) = "string"
                     THEN SplitTrim(value.s)
                ELSE Arr(<<value>>)
           [] type = "object" ->
                IF TypeOf(value) = "object" /\ ~IsArray(value) THEN value
                ELSE IF TypeOf(value) = "string"
                     THEN IF JsonParse(value.s).ok THEN JsonParse(value.s).value
                          ELSE value
                ELSE value
           [] OTHER -> Str(StringOf(value))

\* coerceParams(schema, params): the result after the first i schema entries
RECURSIVE CoerceFirst(_, _, _)
CoerceFirst(schema, params, i) ==
    IF i = 0 THEN <<>>
    ELSE LET result == CoerceFirst(schema, params, i - 1)
             name   == schema[i].key
             def    == schema[i].value
             value  == Get(params, name)
         IN  IF value = Undefined \/ value = Null
             THEN IF def.default # Undefined
                  THEN Put(result, name, def.default)
                  ELSE result
             ELSE Put(result, name, coerceValue(def.type, value))

coerceParams(schema, params) == CoerceFirst(schema, params, Len(schema))

\* formatErrors(errors): the lines that join('\n') puts together, each
\* `  - ${param}: ${message}`
formatErrors(errors) ==
    [i \in 1..Len(errors) |-> <<"  - ", errors[i].param, ": ", errors[i].message>>]

(***************************************************************************)
(* The validator on its own: a schema and a raw input are drawn, then      *)
(* either coerceParams and validateParams run in the order runWorkflow     *)
(* and the validate / prompt commands run them, or validateParams is       *)
(* called on the raw input directly (it is exported).                      *)
(***************************************************************************)

VARIABLES
    vSchema,    \* the ParamsSchema of the workflow
    vRaw,       \* the raw params of the caller
    vStage,     \* "input", "coerced", "validated" or "direct"
    vCoerced,   \* what coerceParams returned
    vResult     \* what validateParams returned

vvars == <<vSchema, vRaw, vStage, vCoerced, vResult>>

\* The most parameters a drawn schema declares, and the most keys of a drawn
\* input that the schema does not declare.
MaxParams  == 2
MaxUnknown == 1

ParamTypes == {"string", "number", "boolean", "array", "object"}

S_x  == <<"x">>
S_u    == <<"u">>
S_url  == <<"u", "r", "l">>
S_7  == <<"7">>
S_ab == <<"a", "b">>
S_list == <<"a", ",", " ", "b">>
S_emptyObject == <<"{", "}">>

\* A default of the declared type, and one that is not of it.
NativeDefault(type) ==
    CASE type = "string"  -> Str(S_x)
      [] type = "number"  -> Num(3)
      [] type = "boolean" -> Bool(TRUE)
      [] type = "array"   -> Arr(<<Str(S_x)>>)
      [] type = "object"  -> Obj

ForeignDefault(type) == IF type = "string" THEN Num(3) ELSE Str(S_ab)

ParamDef(type, required, default) ==
    [type |-> type, required |-> required, default |-> default]

\* Every ParamDefinition the model draws for one parameter.
ParamDefs ==
    {ParamDef(type, required, default) :
        type \in ParamTypes, required \in BOOLEAN,
        default \in {Undefined}}
    \cup {ParamDef(type, required, NativeDefault(type)) :
            type \in ParamTypes, required \in BOOLEAN}
    \cup {ParamDef(type, FALSE, ForeignDefault(type)) : type \in ParamTypes}

\* Every raw value the model draws for one key; Undefined stands for a key
\* the input does not have.
RawValues ==
    {Undefined, Null,
     Str(<<>>), Str(S_7), Str(S_ab), Str(S_true), Str(S_false),
     Str(S_Infinity), Str(S_list), Str(S_emptyObject),
     Num(7), Bool(FALSE), Arr(<<Str(S_x)>>), Obj}

\* The other parameters of a schema are drawn from a few (definition, raw
\* value) pairs: a missing required one, a present one, a defaulted one and
\* two of the wrong shape.
Companions ==
    {[def |-> ParamDef("string", TRUE, Undefined),  raw |-> Undefined],
     [def |-> ParamDef("string", TRUE, Undefined),  raw |-> Str(S_x)],
     [def |-> ParamDef("number", FALSE, Num(3)),    raw |-> Undefined],
     [def |-> ParamDef("object", FALSE, Undefined), raw |-> Str(S_ab)]}

\* Parameter names are strings as every other: p1, p2, ... for the declared
\* ones and z1, z2, ... for the keys no schema declares.
ParamNameAt(i) == <<"p">> \o NatToStr(i)

UnknownNameAt(i) == <<"z">> \o NatToStr(i)

Entry(key, value) == [key |-> key, value |-> value]

\* The entries of a sequence that have a value, in order.
RECURSIVE Present(_)
Present(o) ==
    IF o = <<>> THEN <<>>
    ELSE IF o[1].value = Undefined THEN Present(Tail(o))
    ELSE <<o[1]>> \o Present(Tail(o))

\* A schema and an input of n parameters: the parameter at position pos has
\* definition def and raw value `value`, the others are Companions.
DrawnInput(n, pos, def, value, others) ==
    [schema |-> [i \in 1..n |->
                    Entry(ParamNameAt(i), IF i = pos THEN def ELSE others[i].def)],
     raw    |-> Present([i \in 1..n |->
                    Entry(ParamNameAt(i), IF i = pos THEN value ELSE others[i].raw)])]

\* Every schema of up to MaxParams parameters in which one parameter ranges
\* over every definition and raw value, with up to MaxUnknown undeclared keys
\* in the input.
InitValidate ==
    /\ \E n \in 0..MaxParams, u \in 0..MaxUnknown :
       \E pos \in 1..(IF n = 0 THEN 1 ELSE n), def \in ParamDefs, value \in RawValues :
       \E others \in [(1..n) \ {pos} -> Companions] :
         LET input == DrawnInput(n, pos, def, value, others)
         IN  /\ vSchema = input.schema
             /\ vRaw = input.raw
                         \o [i \in 1..u |-> Entry(UnknownNameAt(i), Str(S_x))]
    /\ vStage = "input"
    /\ vCoerced = <<>>
    /\ vResult = [valid |-> FALSE, errors |-> <<>>, resolvedParams |-> <<>>]

\* const coerced = coerceParams(definition.params, params)
Coerce ==
    /\ vStage = "input"
    /\ vCoerced' = coerceParams(vSchema, vRaw)
    /\ vStage' = "coerced"
    /\ UNCHANGED <<vSchema, vRaw, vResult>>

\* const result = validateParams(definition, coerced)
ValidateCoerced ==
    /\ vStage = "coerced"
    /\ vResult' = validateParams([params |-> vSchema], vCoerced)
    /\ vStage' = "validated"
    /\ UNCHANGED <<vSchema, vRaw, vCoerced>>

\* validateParams(definition, params) on the raw input
ValidateDirect ==
    /\ vStage = "input"
    /\ vResult' = validateParams([params |-> vSchema], vRaw)
    /\ vStage' = "direct"
    /\ UNCHANGED <<vSchema, vRaw, vCoerced>>

(***************************************************************************)
(* Claims about the validator                                              *)
(***************************************************************************)

\* The errors of a result that are about parameter `name`.
ErrorsFor(result, name) ==
    {i \in 1..Len(result.errors) : result.errors[i].param = name}

Absent(value) == value = Undefined \/ value = Null \/ value = Str(<<>>)

\* C7: after coerceParams then validateParams, every key of the raw input that
\* the schema does not declare has an UnknownParameter error.
C7_UnknownKeysReported ==
    vStage = "validated" =>
        \A i \in 1..Len(vRaw) :
            ~HasKey(vSchema, vRaw[i].key) =>
                \E j \in ErrorsFor(vResult, vRaw[i].key) :
                    ErrKind(vResult.errors[j]) = "UnknownParameter"

C9_NumberStringsFiniteOnly ==
    vStage = "validated" =>
        \A i \in 1..Len(vSchema) :
            LET name   == vSchema[i].key
                raw    == Get(vRaw, name)
                parsed == StringToNumber(raw.s)
            IN  (vSchema[i].value.type = "number" /\ raw.t = "string") =>
                    IF parsed.k = "finite"
                    THEN /\ ErrorsFor(vResult, name) = {}
                         /\ HasKey(vResult.resolvedParams, name)
                         /\ Get(vResult.resolvedParams, name) = parsed
                    ELSE /\ \E j \in ErrorsFor(vResult, name) :
                                ErrKind(vResult.errors[j]) = "TypeMismatch"
                         /\ ~HasKey(vResult.resolvedParams, name)

\* C10: for a Boolean parameter a raw string is accepted only if it is "true"
\* or "false", resolving to true and false; any other string gets a
\* TypeMismatch error and no resolved value.
C10_BooleanStringsExactOnly ==
    vStage = "validated" =>
        \A i \in 1..Len(vSchema) :
            LET name == vSchema[i].key
                raw  == Get(vRaw, name)
            IN  (vSchema[i].value.type = "boolean" /\ raw.t = "string") =>
                    IF raw.s \in {S_true, S_false}
                    THEN /\ ErrorsFor(vResult, name) = {}
                         /\ Get(vResult.resolvedParams, name) = Bool(raw.s = S_true)
                    ELSE /\ \E j \in ErrorsFor(vResult, name) :
                                ErrKind(vResult.errors[j]) = "TypeMismatch"
                         /\ ~HasKey(vResult.resolvedParams, name)

\* The params validateParams was called with
ValidatedInput == IF vStage = "validated" THEN vCoerced ELSE vRaw

Validated == vStage \in {"validated", "direct"}

\* C11: the keys of resolvedParams are the declared parameters that have no
\* error and have a present value or a default; a parameter with an error is
\* no key, and neither is an optional one that is absent and has no default.
C11_ResolvedKeys ==
    Validated =>
        /\ \A j \in 1..Len(vResult.resolvedParams) :
              HasKey(vSchema, vResult.resolvedParams[j].key)
        /\ \A i \in 1..Len(vSchema) :
              LET name == vSchema[i].key
              IN  HasKey(vResult.resolvedParams, name) <=>
                     /\ ErrorsFor(vResult, name) = {}
                     /\ \/ ~Absent(Get(ValidatedInput, name))
                        \/ vSchema[i].value.default # Undefined

\* C12: a required parameter without default whose raw value is absent
\* (no key, undefined or null) has, after coerceParams and validateParams,
\* exactly one error, a MissingRequired one, and is no key of resolvedParams.
C12_MissingRequired ==
    vStage = "validated" =>
        \A i \in 1..Len(vSchema) :
            LET name == vSchema[i].key
            IN  (/\ vSchema[i].value.required
                 /\ vSchema[i].value.default = Undefined
                 /\ Get(vRaw, name) \in {Undefined, Null}) =>
                    /\ Cardinality(ErrorsFor(vResult, name)) = 1
                    /\ \A j \in ErrorsFor(vResult, name) :
                          /\ ErrKind(vResult.errors[j]) = "MissingRequired"
                          /\ vResult.errors[j].message = <<MsgRequired, name>>
                    /\ ~HasKey(vResult.resolvedParams, name)
                    /\ ~vResult.valid

\* C12's case: schema {p1: required string}, input {}: one error and
\* resolvedParams = {}
C12_Witness ==
    /\ vStage = "validated"
    /\ Len(vSchema) = 1
    /\ vSchema[1].value = ParamDef("string", TRUE, Undefined)
    /\ vRaw = <<>>
    /\ Len(vResult.errors) = 1
    /\ vResult.resolvedParams = <<>>

\* C13: a required parameter that is absent from the input gets a
\* MissingRequired error after coerceParams and validateParams, also when its
\* definition has a default.
C13_RequiredIgnoresDefault ==
    vStage = "validated" =>
        \A i \in 1..Len(vSchema) :
            LET name == vSchema[i].key
            IN  (/\ vSchema[i].value.required
                 /\ Get(vRaw, name) \in {Undefined, Null}) =>
                    \E j \in ErrorsFor(vResult, name) :
                        ErrKind(vResult.errors[j]) = "MissingRequired"

\* C14: for an array parameter a raw string resolves to its comma-separated
\* tokens, each trimmed, in order ("a, b" to ["a", "b"]), and a raw array
\* resolves to itself; neither is an error.
C14_ArrayFromString ==
    vStage = "validated" =>
        \A i \in 1..Len(vSchema) :
            LET name   == vSchema[i].key
                raw    == Get(vRaw, name)
                tokens == Split(raw.s, ",")
            IN  /\ (vSchema[i].value.type = "array" /\ raw.t = "string") =>
                      /\ ErrorsFor(vResult, name) = {}
                      /\ Get(vResult.resolvedParams, name) =
                            Arr([k \in 1..Len(tokens) |-> Str(Trim(tokens[k]))])
                      /\ raw = Str(S_list) =>
                            Get(vResult.resolvedParams, name) =
                               Arr(<<Str(<<"a">>), Str(<<"b">>)>>)
                /\ (vSchema[i].value.type = "array" /\ IsArray(raw)) =>
                      /\ ErrorsFor(vResult, name) = {}
                      /\ Get(vResult.resolvedParams, name) = raw

\* C14's case: "a, b" given for an array parameter
C14_Witness ==
    /\ vStage = "validated"
    /\ \E i \in 1..Len(vSchema) :
          /\ vSchema[i].value.type = "array"
          /\ Get(vRaw, vSchema[i].key) = Str(S_list)
          /\ Get(vResult.resolvedParams, vSchema[i].key).l
                = <<Str(<<"a">>), Str(<<"b">>)>>

\* The native shape of a declared type
NativeShape(type, value) ==
    CASE type = "string"  -> TypeOf(value) = "string"
      [] type = "number"  -> TypeOf(value) = "number"
      [] type = "boolean" -> TypeOf(value) = "boolean"
      [] type = "array"   -> IsArray(value)
      [] type = "object"  -> /\ TypeOf(value) = "object"
                             /\ ~IsArray(value)
                             /\ value # Null

\* C15: when coerceParams then validateParams report valid, every value of
\* resolvedParams (a key holding undefined counting as no value) has the
\* native shape of its parameter's type, a value taken from a default too.
C15_NativeShapes ==
    (vStage = "validated" /\ vResult.valid) =>
        \A i \in 1..Len(vSchema) :
            LET value == Get(vResult.resolvedParams, vSchema[i].key)
            IN  value # Undefined => NativeShape(vSchema[i].value.type, value)

\* C30: after coerceParams and validateParams, the empty string given for a
\* string parameter is a missing value: a required parameter has exactly a
\* MissingRequired error, an optional one resolves to its default, or to no
\* value when it has none; the empty string is not resolved.
C30_EmptyStringIsAbsent ==
    vStage = "validated" =>
        \A i \in 1..Len(vSchema) :
            LET name == vSchema[i].key
                def  == vSchema[i].value
            IN  (def.type = "string" /\ Get(vRaw, name) = Str(<<>>)) =>
                   /\ def.required =>
                         /\ Cardinality(ErrorsFor(vResult, name)) = 1
                         /\ \A j \in ErrorsFor(vResult, name) :
                               ErrKind(vResult.errors[j]) = "MissingRequired"
                         /\ ~HasKey(vResult.resolvedParams, name)
                   /\ ~def.required =>
                         /\ ErrorsFor(vResult, name) = {}
                         /\ Get(vResult.resolvedParams, name) = def.default
                   /\ Get(vResult.resolvedParams, name) # Str(<<>>)

\* An optional string parameter with a default was given the empty string
\* and resolved to the default
C30_Witness ==
    /\ vStage = "validated"
    /\ \E i \in 1..Len(vSchema) :
          /\ vSchema[i].value.type = "string"
          /\ ~vSchema[i].value.required
          /\ vSchema[i].value.default # Undefined
          /\ HasKey(vRaw, vSchema[i].key)
          /\ Get(vRaw, vSchema[i].key) = Str(<<>>)
          /\ Get(vResult.resolvedParams, vSchema[i].key) = vSchema[i].value.default
    /\ vResult.valid

(***************************************************************************)
(* Loader (part_003 66-256)                                                *)
(*                                                                         *)
(* A path is the sequence of its components below the file-system root.    *)
(* The file system is a sequence of nodes [path, kind, export] in the      *)
(* order readdir lists them; export is what importing the file gives.      *)
(***************************************************************************)

StartsWith(s, prefix) ==
    Len(s) >= Len(prefix) /\ SubSeq(s, 1, Len(prefix)) = prefix

EndsWith(s, suffix) ==
    Len(s) >= Len(suffix) /\ SubSeq(s, Len(s) - Len(suffix) + 1, Len(s)) = suffix

Includes(s, c) == \E i \in 1..Len(s) : s[i] = c

S_ts == <<".", "t", "s">>
S_workflows == <<"w", "o", "r", "k", "f", "l", "o", "w", "s">>

\* process.cwd() and process.env.HOME
Cwd  == <<<<"c", "w", "d">>>>
Home == <<<<"h", "o", "m", "e">>>>

\* path.resolve's normalisation of components: "" and "." are dropped, ".."
\* removes the component before it.
RECURSIVE Normalize(_, _)
Normalize(done, rest) ==
    IF rest = <<>> THEN done
    ELSE IF rest[1] \in {<<>>, <<".">>} THEN Normalize(done, Tail(rest))
    ELSE IF rest[1] = <<".", ".">>
         THEN Normalize(IF done = <<>> THEN <<>> ELSE SubSeq(done, 1, Len(done) - 1),
                        Tail(rest))
    ELSE Normalize(Append(done, rest[1]), Tail(rest))

\* path.resolve(base, p) for an absolute base
Resolve(base, p) ==
    IF StartsWith(p, <<"/">>) THEN Normalize(<<>>, Split(p, "/"))
    ELSE Normalize(base, Split(p, "/"))

\* DEFAULT_WORKFLOW_PATHS
DEFAULT_WORKFLOW_PATHS ==
    << <<".", "/", "w", "o", "r", "k", "f", "l", "o", "w", "s">>,
       <<"~", "/", ".", "c", "h", "r", "o", "m", "e", "-", "c", "l", "a", "u", "d", "e",
         "/", "w", "o", "r", "k", "f", "l", "o", "w", "s">> >>

\* expandHome followed by resolve, as getWorkflowPaths maps them
ExpandAndResolve(p) ==
    IF StartsWith(p, <<"~", "/">>)
    THEN Resolve(Home, SubSeq(p, 3, Len(p)))
    ELSE Resolve(Cwd, p)

existsSync(fs, path) == path = <<>> \/ \E i \in 1..Len(fs) : fs[i].path = path

NodeAt(fs, path) == fs[CHOOSE i \in 1..Len(fs) : fs[i].path = path]

IsDirectory(fs, path) ==
    path = <<>> \/ (existsSync(fs, path) /\ NodeAt(fs, path).kind = "dir")

\* readdir(dir, {withFileTypes: true}): the nodes directly under dir, in order
RECURSIVE ReadDirFrom(_, _, _)
ReadDirFrom(fs, dir, i) ==
    IF i > Len(fs) THEN <<>>
    ELSE IF Len(fs[i].path) = Len(dir) + 1 /\ SubSeq(fs[i].path, 1, Len(dir)) = dir
         THEN <<fs[i]>> \o ReadDirFrom(fs, dir, i + 1)
         ELSE ReadDirFrom(fs, dir, i + 1)

readdir(fs, dir) == ReadDirFrom(fs, dir, 1)

BaseName(path) == path[Len(path)]

\* getWorkflowPaths(customPaths): customPaths is <<>> when not given
getWorkflowPaths(fs, customPaths) ==
    LET paths    == IF customPaths = <<>> THEN DEFAULT_WORKFLOW_PATHS ELSE customPaths
        resolved == [i \in 1..Len(paths) |-> ExpandAndResolve(paths[i])]
    IN  SelectSeq(resolved, LAMBDA p : existsSync(fs, p))

\* A WorkflowDefinition.  name is <<>> when missing or empty; hasTask,
\* hasParams and hasCapture tell whether the object has the property.
Definition(name, hasTask, task, hasParams, params, hasCapture, capture) ==
    [name |-> name, hasTask |-> hasTask, task |-> task,
     hasParams |-> hasParams, params |-> params,
     hasCapture |-> hasCapture, capture |-> capture]

\* A CaptureConfig.  A sub-config the object does not have is one with
\* present = FALSE; data is <<>> when the object has no data path.
NoNetwork ==
    [present |-> FALSE, patterns |-> <<>>, methods |-> <<>>, statusCodes |-> <<>>,
     contentType |-> <<>>, saveDir |-> <<>>, extractJson |-> "undefined",
     includeRequestHeaders |-> FALSE, includeResponseHeaders |-> FALSE]

\* screenshots is a string (isString, in dir) or a ScreenshotConfig
NoScreenshots ==
    [present |-> FALSE, isString |-> FALSE, dir |-> <<>>, format |-> <<>>,
     naming |-> <<>>]

NoConsole ==
    [present |-> FALSE, levels |-> <<>>, pattern |-> <<>>, saveAs |-> <<>>]

NoCapture ==
    [network |-> NoNetwork, screenshots |-> NoScreenshots, console |-> NoConsole,
     data |-> <<>>]

NoDefinition == Definition(<<>>, FALSE, <<>>, FALSE, <<>>, FALSE, NoCapture)

\* What importing a file gives: a default export that is a definition
\* ("definition"), no default export ("none"), or an exception ("throws").
Export(kind, def) == [kind |-> kind, def |-> def]

Loaded(definition, filePath) ==
    [ok |-> TRUE,
     value |-> [definition |-> definition, filePath |-> filePath,
                directory |-> SubSeq(filePath, 1, Len(filePath) - 1)],
     error |-> "", searched |-> <<>>]

LoadError(error, searched) ==
    [ok |-> FALSE,
     value |-> [definition |-> NoDefinition, filePath |-> <<>>, directory |-> <<>>],
     error |-> error, searched |-> searched]

\* loadWorkflowFile(filePath), for a resolved path
loadWorkflowFile(fs, absolutePath) ==
    IF ~existsSync(fs, absolutePath)
    THEN LoadError("Workflow file not found", <<>>)
    ELSE IF IsDirectory(fs, absolutePath)
              \/ NodeAt(fs, absolutePath).export.kind = "throws"
         THEN LoadError("Failed to load workflow", <<>>)
    ELSE LET export == NodeAt(fs, absolutePath).export
         IN  IF export.kind = "none" \/ export.def.name = <<>>
             THEN LoadError("Failed to load workflow", <<>>)
             ELSE Loaded(export.def, absolutePath)

\* scanDirectory(dir, maxDepth, currentDepth)
RECURSIVE scanDirectory(_, _, _, _)
RECURSIVE ScanEntries(_, _, _, _)
scanDirectory(fs, dir, maxDepth, currentDepth) ==
    IF currentDepth >= maxDepth THEN <<>>
    ELSE IF ~existsSync(fs, dir) THEN <<>>
    ELSE ScanEntries(fs, readdir(fs, dir), maxDepth, currentDepth)

ScanEntries(fs, entries, maxDepth, currentDepth) ==
    IF entries = <<>> THEN <<>>
    ELSE LET entry == entries[1]
             name  == BaseName(entry.path)
             found ==
                 IF entry.kind = "dir" /\ ~StartsWith(name, <<".">>)
                 THEN scanDirectory(fs, entry.path, maxDepth, currentDepth + 1)
                 ELSE IF entry.kind = "file" /\ EndsWith(name, S_ts)
                           /\ ~StartsWith(name, <<"_">>)
                      THEN LET loaded == loadWorkflowFile(fs, entry.path)
                           IN  IF loaded.ok THEN <<loaded.value>> ELSE <<>>
                      ELSE <<>>
         IN  found \o ScanEntries(fs, Tail(entries), maxDepth, currentDepth)

\* A scan that goes one level deeper
DefaultMaxDepth_Deeper == 2 + 1

\* The default of scanDirectory's maxDepth parameter
DefaultMaxDepth == 2

\* A listWorkflows without its dedupe
DedupeByName_Keep(workflows, seen) == workflows

\* The dedupe of listWorkflows: first found wins
RECURSIVE DedupeByName(_, _)
DedupeByName(workflows, seen) ==
    IF workflows = <<>> THEN <<>>
    ELSE IF workflows[1].definition.name \in seen
         THEN DedupeByName(Tail(workflows), seen)
         ELSE <<workflows[1]>>
                \o DedupeByName(Tail(workflows), seen \cup {workflows[1].definition.name})

RECURSIVE ScanAll(_, _)
ScanAll(fs, paths) ==
    IF paths = <<>> THEN <<>>
    ELSE scanDirectory(fs, paths[1], DefaultMaxDepth, 0) \o ScanAll(fs, Tail(paths))

\* listWorkflows(searchPaths)
listWorkflows(fs, searchPaths) ==
    DedupeByName(ScanAll(fs, getWorkflowPaths(fs, searchPaths)), {})

\* A filename search that looks directly under the root only
FileMatch_DirectOnly(fs, searchPath, name) ==
    IF existsSync(fs, searchPath \o <<name \o S_ts>>)
    THEN searchPath \o <<name \o S_ts>>
    ELSE <<>>

\* The filename search of loadWorkflow in one root: the path of the file to
\* load, or <<>> when the root has none.
FileMatch(fs, searchPath, name) ==
    LET directPath == searchPath \o <<name \o S_ts>>
        entries    == readdir(fs, searchPath)
        nested     == SelectSeq(entries, LAMBDA entry :
                          entry.kind = "dir"
                          /\ existsSync(fs, entry.path \o <<name \o S_ts>>))
    IN  IF existsSync(fs, directPath) THEN directPath
        ELSE IF nested # <<>> THEN nested[1].path \o <<name \o S_ts>>
        ELSE <<>>

\* A first-match search that goes through the roots from the last to the first
RECURSIVE FirstFileMatch_LastRoot(_, _, _)
FirstFileMatch_LastRoot(fs, paths, name) ==
    IF paths = <<>> THEN <<>>
    ELSE IF FirstFileMatch_LastRoot(fs, Tail(paths), name) # <<>>
         THEN FirstFileMatch_LastRoot(fs, Tail(paths), name)
    ELSE FileMatch(fs, paths[1], name)

RECURSIVE FirstFileMatch(_, _, _)
FirstFileMatch(fs, paths, name) ==
    IF paths = <<>> THEN <<>>
    ELSE IF FileMatch(fs, paths[1], name) # <<>> THEN FileMatch(fs, paths[1], name)
    ELSE FirstFileMatch(fs, Tail(paths), name)

\* A loadWorkflow that goes on to the declared names when the file it found
\* does not load
loadWorkflow_FallThrough(fs, name, searchPaths) ==
    LET paths == getWorkflowPaths(fs, searchPaths)
        match == FirstFileMatch(fs, paths, name)
        all   == listWorkflows(fs, searchPaths)
        found == SelectSeq(all, LAMBDA w : w.definition.name = name)
    IN  IF match # <<>> /\ loadWorkflowFile(fs, match).ok THEN loadWorkflowFile(fs, match)
        ELSE IF found # <<>>
             THEN Loaded(found[1].definition, found[1].filePath)
        ELSE LoadError("Workflow not found", paths)

\* A loadWorkflow without the search by declared name
loadWorkflow_FilenameOnly(fs, name, searchPaths) ==
    LET paths == getWorkflowPaths(fs, searchPaths)
        match == FirstFileMatch(fs, paths, name)
    IN  IF match # <<>> THEN loadWorkflowFile(fs, match)
        ELSE LoadError("Workflow not found", paths)

\* loadWorkflow(name, searchPaths)
loadWorkflow(fs, name, searchPaths) ==
    LET paths == getWorkflowPaths(fs, searchPaths)
        match == FirstFileMatch(fs, paths, name)
        all   == listWorkflows(fs, searchPaths)
        found == SelectSeq(all, LAMBDA w : w.definition.name = name)
    IN  IF match # <<>> THEN loadWorkflowFile(fs, match)
        ELSE IF found # <<>>
             THEN Loaded(found[1].definition, found[1].filePath)
        ELSE LoadError("Workflow not found", paths)

\* getWorkflow(nameOrPath, searchPaths)
getWorkflow(fs, nameOrPath, searchPaths) ==
    IF Includes(nameOrPath, "/") \/ EndsWith(nameOrPath, S_ts)
    THEN loadWorkflowFile(fs, Resolve(Cwd, nameOrPath))
    ELSE loadWorkflow(fs, nameOrPath, searchPaths)

(***************************************************************************)
(* Definition helper (part_003 1-64)                                       *)
(***************************************************************************)

Defined(definition) == [ok |-> TRUE, value |-> definition, error |-> ""]

DefineError(message) == [ok |-> FALSE, value |-> NoDefinition, error |-> message]

\* defineWorkflow(definition)
defineWorkflow(definition) ==
    IF definition.name = <<>>
    THEN DefineError("Workflow must have a name")
    ELSE IF ~definition.hasTask \/ definition.task = <<>>
    THEN DefineError("Workflow must have a task")
    ELSE IF ~definition.hasParams
    THEN DefineError("Workflow must have params (use empty object {} if none)")
    ELSE IF ~definition.hasCapture
    THEN DefineError("Workflow must have capture config (use empty object {} if none)")
    ELSE Defined([definition EXCEPT !.task = Trim(definition.task)])

(***************************************************************************)
(* The loader on its own: a file system, the caller's search paths and a   *)
(* raw definition are drawn, then defineWorkflow or listWorkflows is       *)
(* called.                                                                 *)
(***************************************************************************)

VARIABLES
    lFs,        \* the file system
    lPaths,     \* the searchPaths argument, <<>> when not given
    lArg,       \* the definition given to defineWorkflow
    lCall,      \* "" or the function that was called
    lDefined,   \* what defineWorkflow returned or threw
    lListed,    \* what listWorkflows returned
    lTarget,    \* the name or path given to loadWorkflow or getWorkflow
    lLoaded     \* what loadWorkflow or getWorkflow returned or threw

lvars == <<lFs, lPaths, lArg, lCall, lDefined, lListed, lTarget, lLoaded>>

S_a  == <<"a">>
S_b  == <<"b">>
S_c  == <<"c">>
S_w  == <<"w">>
S_hi == <<"h", "i">>
S_deep == <<"d", "e", "e", "p">>
S_hidden == <<".", "h">>
S_sub == <<"s", "u", "b">>
S_custom == <<"c", "u", "s", "t", "o", "m">>
S_dotDir == <<".", "c", "h", "r", "o", "m", "e", "-", "c", "l", "a", "u", "d", "e">>

\* A definition file's default export with the declared name
FileDefinition(name) == Definition(name, TRUE, S_hi, TRUE, <<>>, TRUE, NoCapture)

DirNode(path) == [path |-> path, kind |-> "dir", export |-> Export("none", NoDefinition)]

\* A definition file; a declared name of <<>> stands for no such file
FileNode(path, name) ==
    [path |-> path, kind |-> "file", export |-> Export("definition", FileDefinition(name))]

\* A file whose import gives export
ExportNode(path, export) == [path |-> path, kind |-> "file", export |-> export]

\* The names a drawn file declares; <<>> for a file that is not there
DeclaredNames == {<<>>, S_a, S_b}

\* What a drawn file that is no valid definition file is: a module without
\* default export, a module whose import throws (as when defineWorkflow
\* throws), and a plain object with a name and nothing else
S_noExport == <<"n", "o", "n", "e">>
S_throws   == <<"t", "h", "r", "o", "w", "s">>
S_bare     == <<"b", "a", "r", "e">>

\* The file a drawn content stands for: a declared name, or one of the three
\* above
ContentNode(path, content) ==
    IF content = S_noExport THEN ExportNode(path, Export("none", NoDefinition))
    ELSE IF content = S_throws THEN ExportNode(path, Export("throws", NoDefinition))
    ELSE IF content = S_bare
    THEN ExportNode(path, Export("definition",
                          Definition(S_a, FALSE, <<>>, FALSE, <<>>, FALSE, NoCapture)))
    ELSE FileNode(path, content)

\* ./workflows with a.ts and sub/b.ts, ~/.chrome-claude/workflows with a.ts
\* (the directory is there when the file is) and /custom with w.ts, each file
\* there or not; with extras, ./workflows also has a hidden directory with
\* a.ts, listed first, a file with the exclusion marker and a file three
\* levels down, each declaring c
DrawnFs(n1, n2, n3, n4, extras) ==
    SelectSeq(
        << DirNode(Cwd \o <<S_workflows>>),
           [DirNode(Cwd \o <<S_workflows, S_hidden>>) EXCEPT !.kind = IF extras THEN "dir" ELSE "no"],
           [FileNode(Cwd \o <<S_workflows, S_hidden, S_a \o S_ts>>, S_c)
               EXCEPT !.kind = IF extras THEN "file" ELSE "no"],
           [FileNode(Cwd \o <<S_workflows, <<"_">> \o S_c \o S_ts>>, S_c)
               EXCEPT !.kind = IF extras THEN "file" ELSE "no"],
           ContentNode(Cwd \o <<S_workflows, S_a \o S_ts>>, n1),
           DirNode(Cwd \o <<S_workflows, S_sub>>),
           ContentNode(Cwd \o <<S_workflows, S_sub, S_b \o S_ts>>, n2),
           [DirNode(Cwd \o <<S_workflows, S_sub, S_deep>>)
               EXCEPT !.kind = IF extras THEN "dir" ELSE "no"],
           [FileNode(Cwd \o <<S_workflows, S_sub, S_deep, S_c \o S_ts>>, S_c)
               EXCEPT !.kind = IF extras THEN "file" ELSE "no"],
           [DirNode(Home \o <<S_dotDir, S_workflows>>)
               EXCEPT !.kind = IF n3 # <<>> THEN "dir" ELSE "no"],
           FileNode(Home \o <<S_dotDir, S_workflows, S_a \o S_ts>>, n3),
           DirNode(<<S_custom>>),
           FileNode(<<S_custom, S_w \o S_ts>>, n4) >>,
        LAMBDA node :
            \/ node.kind = "dir"
            \/ node.kind = "file" /\ node.export.kind # "definition"
            \/ node.kind = "file" /\ node.export.def.name # <<>>)

\* What the first and the second file of ./workflows are drawn from
FirstContents  == DeclaredNames \cup {S_noExport, S_throws, S_bare}
SecondContents == DeclaredNames \cup {S_noExport}

\* The names and paths that are looked up: the names of the drawn files and
\* definitions, and paths of the first and second file and of no file
S_pathA == <<".", "/">> \o S_workflows \o <<"/">> \o S_a \o S_ts
S_pathB == S_workflows \o <<"/">> \o S_sub \o <<"/">> \o S_b \o S_ts
S_pathNone == S_w \o S_ts

LookupNames == {S_a, S_b, S_c, S_w}

LookupTargets == LookupNames \cup {S_pathA, S_pathB, S_pathNone}

\* searchPaths: not given, or /custom before ./workflows
SearchPathChoices ==
    {<<>>, << <<"/">> \o S_custom, <<".", "/">> \o S_workflows >>}

\* What defineWorkflow is given: every combination of a name or none, a task
\* (none, empty, blank, padded, plain), params or none, capture or none
RawDefinitions ==
    {Definition(name, task.has, task.text, hasParams, <<>>, hasCapture, NoCapture) :
        name \in {<<>>, S_a},
        task \in {[has |-> FALSE, text |-> <<>>], [has |-> TRUE, text |-> <<>>],
                  [has |-> TRUE, text |-> <<" ", "\n">>],
                  [has |-> TRUE, text |-> <<" ", "h", "i", "\n">>],
                  [has |-> TRUE, text |-> S_hi]},
        hasParams \in BOOLEAN, hasCapture \in BOOLEAN}

\* Either a raw definition for defineWorkflow, or a file system and search
\* paths for the lookups
InitLoad ==
    /\ \/ /\ lArg \in RawDefinitions
          /\ lFs = <<>>
          /\ lPaths = <<>>
       \/ /\ lArg = NoDefinition
          /\ \E n1 \in FirstContents, n2 \in SecondContents, n3 \in DeclaredNames,
                n4 \in DeclaredNames, extras \in BOOLEAN :
                lFs = DrawnFs(n1, n2, n3, n4, extras)
          /\ lPaths \in SearchPathChoices
    /\ lCall = ""
    /\ lDefined = DefineError("")
    /\ lListed = <<>>
    /\ lTarget = <<>>
    /\ lLoaded = LoadError("", <<>>)

\* A loader that stays as it starts, for the other specifications
InitLoadIdle ==
    /\ lFs = <<>>
    /\ lPaths = <<>>
    /\ lArg = NoDefinition
    /\ lCall = ""
    /\ lDefined = DefineError("")
    /\ lListed = <<>>
    /\ lTarget = <<>>
    /\ lLoaded = LoadError("", <<>>)

\* export default defineWorkflow({...})
CallDefineWorkflow ==
    /\ lCall = ""
    /\ lArg # NoDefinition
    /\ lDefined' = defineWorkflow(lArg)
    /\ lCall' = "defineWorkflow"
    /\ UNCHANGED <<lFs, lPaths, lArg, lListed, lTarget, lLoaded>>

\* const workflows = await listWorkflows(searchPaths)
CallListWorkflows ==
    /\ lCall = ""
    /\ lFs # <<>>
    /\ lListed' = listWorkflows(lFs, lPaths)
    /\ lCall' = "listWorkflows"
    /\ UNCHANGED <<lFs, lPaths, lArg, lDefined, lTarget, lLoaded>>

\* await loadWorkflow(name, searchPaths)
CallLoadWorkflow ==
    /\ lCall = ""
    /\ lFs # <<>>
    /\ \E name \in LookupNames :
          /\ lTarget' = name
          /\ \E loaded \in {loadWorkflow(lFs, name, lPaths)} : lLoaded' = loaded
    /\ lCall' = "loadWorkflow"
    /\ UNCHANGED <<lFs, lPaths, lArg, lDefined, lListed>>

\* await getWorkflow(nameOrPath, searchPaths)
CallGetWorkflow ==
    /\ lCall = ""
    /\ lFs # <<>>
    /\ \E nameOrPath \in LookupTargets :
          /\ lTarget' = nameOrPath
          /\ \E loaded \in {getWorkflow(lFs, nameOrPath, lPaths)} : lLoaded' = loaded
    /\ lCall' = "getWorkflow"
    /\ UNCHANGED <<lFs, lPaths, lArg, lDefined, lListed>>

(***************************************************************************)
(* Prompt builder (prompt-builder.ts 1-197)                                *)
(*                                                                         *)
(* A text is a sequence of pieces: Lit is text the code writes itself,     *)
(* Txt is text that comes from the definition or the parameters, kept as   *)
(* characters.                                                             *)
(***************************************************************************)

Lit(text) == [lit |-> text, txt |-> <<>>]
Txt(chars) == [lit |-> "", txt |-> chars]

NewLine == Lit("\n")

\* The double-quote and back-tick characters, which a TLA+ string cannot hold.
DoubleQuote == "dquote"
BackTick    == "backtick"

\* Handlebars' escapeExpression on the characters of a string
EscapeChar(c) ==
    CASE c = "&"  -> <<"&", "a", "m", "p", ";">>
      [] c = "<"  -> <<"&", "l", "t", ";">>
      [] c = ">"  -> <<"&", "g", "t", ";">>
      [] c = DoubleQuote -> <<"&", "q", "u", "o", "t", ";">>
      [] c = "'"  -> <<"&", "#", "x", "2", "7", ";">>
      [] c = BackTick -> <<"&", "#", "x", "6", "0", ";">>
      [] c = "="  -> <<"&", "#", "x", "3", "D", ";">>
      [] OTHER    -> <<c>>

RECURSIVE EscapeExpression(_)
EscapeExpression(s) ==
    IF s = <<>> THEN <<>> ELSE EscapeChar(s[1]) \o EscapeExpression(Tail(s))

\* What a {{name}} mustache writes for the value the context has for name
MustacheValue(value) ==
    IF value.t \in {"undefined", "null"} THEN <<>>
    ELSE EscapeExpression(StringOf(value))

\* The first index at or after i where s holds the two characters a, b;
\* 0 when there is none.
FindPair(s, i, a, b) ==
    LET at == {j \in i..(Len(s) - 1) : s[j] = a /\ s[j + 1] = b}
    IN  IF at = {} THEN 0 ELSE CHOOSE j \in at : \A k \in at : j <= k

\* Handlebars.compile(template)(context), for templates whose only tags are
\* {{identifier}} mustaches
RECURSIVE HandlebarsRender(_, _)
HandlebarsRender(template, context) ==
    LET open  == FindPair(template, 1, "{", "{")
        close == IF open = 0 THEN 0 ELSE FindPair(template, open + 2, "}", "}")
    IN  IF open = 0 \/ close = 0 THEN template
        ELSE SubSeq(template, 1, open - 1)
               \o MustacheValue(Get(context, Trim(SubSeq(template, open + 2, close - 1))))
               \o HandlebarsRender(SubSeq(template, close + 2, Len(template)), context)

\* renderTemplate(template, context)
renderTemplate(template, context) == HandlebarsRender(template, context)

\* array.join(sep) of strings, as pieces
RECURSIVE JoinTxt(_, _)
JoinTxt(items, sep) ==
    IF items = <<>> THEN <<>>
    ELSE IF Len(items) = 1 THEN <<Txt(items[1])>>
    ELSE <<Txt(items[1]), Lit(sep)>> \o JoinTxt(Tail(items), sep)

\* lines.join('\n'), each line a sequence of pieces
RECURSIVE JoinLines(_)
JoinLines(lines) ==
    IF lines = <<>> THEN <<>>
    ELSE IF Len(lines) = 1 THEN lines[1]
    ELSE lines[1] \o <<NewLine>> \o JoinLines(Tail(lines))

\* The lines a condition adds
When(cond, lines) == IF cond THEN lines ELSE <<>>

\* buildNetworkInstructions(config, context)
buildNetworkInstructions(config, context) ==
    LET saveDir == renderTemplate(config.saveDir, context)
    IN  JoinLines(
          << <<Lit("\nNETWORK CAPTURE:")>>,
             <<Lit("- Monitor network requests matching: ")>>
                \o JoinTxt(config.patterns, ", ") >>
          \o When(Len(config.methods) > 0,
                  << <<Lit("- Only capture methods: ")>>
                       \o JoinTxt(config.methods, ", ") >>)
          \o When(Len(config.statusCodes) > 0,
                  << <<Lit("- Only capture status codes: ")>>
                       \o JoinTxt(config.statusCodes, ", ") >>)
          \o When(config.contentType # <<>>,
                  << <<Lit("- Only capture content type: "), Txt(config.contentType)>> >>)
          \o << <<Lit("- Save responses to: "), Txt(saveDir)>> >>
          \o When(config.extractJson # "false",
                  << <<Lit("- Extract and format JSON responses")>> >>)
          \o When(config.includeRequestHeaders,
                  << <<Lit("- Include request headers")>> >>)
          \o When(config.includeResponseHeaders,
                  << <<Lit("- Include response headers")>> >>))

\* buildScreenshotInstructions(config, context)
buildScreenshotInstructions(config, context) ==
    LET dir == renderTemplate(config.dir, context)
    IN  IF config.isString
        THEN JoinLines(
               << <<Lit("\nSCREENSHOTS:")>>,
                  <<Lit("- Take screenshots at key steps")>>,
                  <<Lit("- Save to: "), Txt(dir)>>,
                  <<Lit("- Name files descriptively (e.g., 01-login-page.png, 02-dashboard.png)")>> >>)
        ELSE JoinLines(
               << <<Lit("\nSCREENSHOTS:")>>,
                  <<Lit("- Take screenshots at key steps")>>,
                  <<Lit("- Save to: "), Txt(dir)>>,
                  <<Lit("- Format: "),
                    Txt(IF config.format # <<>> THEN config.format ELSE <<"p", "n", "g">>)>>,
                  IF config.naming = <<"t", "i", "m", "e", "s", "t", "a", "m", "p">>
                  THEN <<Lit("- Name files with timestamps")>>
                  ELSE <<Lit("- Name files with step numbers and descriptions")>> >>)

\* buildConsoleInstructions(config, context)
buildConsoleInstructions(config, context) ==
    LET saveAs == renderTemplate(config.saveAs, context)
    IN  JoinLines(
          << <<Lit("\nCONSOLE CAPTURE:")>>,
             <<Lit("- Capture console output: ")>> \o JoinTxt(config.levels, ", ") >>
          \o When(config.pattern # <<>>,
                  << <<Lit("- Filter messages matching: "), Txt(config.pattern)>> >>)
          \o << <<Lit("- Save to: "), Txt(saveAs)>> >>)

\* A buildCaptureInstructions that writes the console block first
buildCaptureInstructions_ConsoleFirst(capture, context) ==
    JoinLines(
        When(capture.console.present,
             <<buildConsoleInstructions(capture.console, context)>>)
        \o When(capture.network.present,
                <<buildNetworkInstructions(capture.network, context)>>)
        \o When(capture.screenshots.present
                  /\ ~(capture.screenshots.isString /\ capture.screenshots.dir = <<>>),
                <<buildScreenshotInstructions(capture.screenshots, context)>>)
        \o When(capture.data # <<>>,
                << <<Lit("\nDATA EXTRACTION:\n- Save extracted data as JSON to: "),
                     Txt(renderTemplate(capture.data, context))>> >>))

\* buildCaptureInstructions(capture, context): <<>> is the empty string
buildCaptureInstructions(capture, context) ==
    JoinLines(
        When(capture.network.present,
             <<buildNetworkInstructions(capture.network, context)>>)
        \o When(capture.screenshots.present
                  /\ ~(capture.screenshots.isString /\ capture.screenshots.dir = <<>>),
                <<buildScreenshotInstructions(capture.screenshots, context)>>)
        \o When(capture.console.present,
                <<buildConsoleInstructions(capture.console, context)>>)
        \o When(capture.data # <<>>,
                << <<Lit("\nDATA EXTRACTION:\n- Save extracted data as JSON to: "),
                     Txt(renderTemplate(capture.data, context))>> >>))

S_name      == <<"n", "a", "m", "e">>
S_outputDir == <<"o", "u", "t", "p", "u", "t", "D", "i", "r">>
S_output    == <<"o", "u", "t", "p", "u", "t">>

RECURSIVE PutAll(_, _)
PutAll(o, entries) ==
    IF entries = <<>> THEN o
    ELSE PutAll(Put(o, entries[1].key, entries[1].value), Tail(entries))

\* A context in which the parameters come last: {name, outputDir, ...params}
PromptContext_ParamsLast(workflow, params, optOutputDir) ==
    LET outputDir == IF optOutputDir # <<>> THEN optOutputDir
                     ELSE <<".", "/", "o", "u", "t", "p", "u", "t", "/">> \o workflow.name
    IN  PutAll(<<[key |-> <<"n", "a", "m", "e">>, value |-> Str(workflow.name)],
                 [key |-> <<"o", "u", "t", "p", "u", "t", "D", "i", "r">>,
                  value |-> Str(outputDir)]>>, params)

\* The rendering context of buildPrompt: {...params, name, outputDir};
\* optOutputDir is <<>> when the option is not given
PromptContext(workflow, params, optOutputDir) ==
    LET outputDir == IF optOutputDir # <<>> THEN optOutputDir
                     ELSE <<".", "/">> \o S_output \o <<"/">> \o workflow.name
    IN  Put(Put(params, S_name, Str(workflow.name)), S_outputDir, Str(outputDir))

\* buildPrompt(workflow, params, {outputDir})
buildPrompt(workflow, params, optOutputDir) ==
    LET context == PromptContext(workflow, params, optOutputDir)
        task == HandlebarsRender(workflow.task, context)
        captureInstructions == buildCaptureInstructions(workflow.capture, context)
    IN  JoinLines(
          << <<Txt(task)>> >>
          \o When(captureInstructions # <<>>,
                  << <<>>, <<Lit("---")>>, <<Lit("CAPTURE INSTRUCTIONS:")>>,
                     captureInstructions >>)
          \o << <<>>, <<Lit("---")>>, <<Lit("OUTPUT FORMAT:")>>,
                <<Lit("When complete, summarize:")>>,
                <<Lit("- What was done")>>,
                <<Lit("- Files saved (with paths)")>>,
                <<Lit("- Any errors or issues encountered")>> >>)

(***************************************************************************)
(* The prompt builder on its own: a definition, resolved parameters and an *)
(* outputDir option are drawn, then buildPrompt is called.                 *)
(***************************************************************************)

VARIABLES
    bWorkflow,   \* the WorkflowDefinition
    bParams,     \* the resolved parameters
    bOutputDir,  \* options.outputDir, <<>> when not given
    bStage,      \* "input" or "built"
    bPrompt      \* what buildPrompt returned

bvars == <<bWorkflow, bParams, bOutputDir, bStage, bPrompt>>

S_wf == <<"w", "f">>

\* Task templates: a placeholder the parameters have, one nothing has, the
\* two injected names (one with blanks inside the braces), and no placeholder
TaskChoices ==
    {<<"G", "o", " ", "{", "{", "u", "r", "l", "}", "}">>, <<"{", "{", "z", "z", "}", "}", "!">>, <<"{", "{", "n", "a", "m", "e", "}", "}", ":", "{", "{", " ", "o", "u", "t", "p", "u", "t", "D", "i", "r", " ", "}", "}">>, <<"h", "i">>}

\* Resolved parameters: none, a url, a url with characters HTML escapes, a
\* number, and parameters called name and outputDir
PromptParamChoices ==
    {<<>>,
     <<Entry(S_url, Str(S_u))>>,
     <<Entry(S_url, Str(<<"a", "&", "b", "=", "c">>))>>,
     <<Entry(S_url, Num(7))>>,
     <<Entry(S_name, Str(S_u)), Entry(S_url, Str(S_u)), Entry(S_outputDir, Str(S_x))>>}

NetworkChoices ==
    {NoNetwork,
     [NoNetwork EXCEPT !.present = TRUE, !.patterns = <<<<"*", "/", "a", "p", "i", "/", "*">>>>,
                       !.saveDir = <<"o", "/", "{", "{", "n", "a", "m", "e", "}", "}", "/">>],
     [NoNetwork EXCEPT !.present = TRUE, !.patterns = <<<<"*", "/", "a", "p", "i", "/", "*">>, <<"*", "{", "{", "n", "a", "m", "e", "}", "}", "*">>>>,
                       !.methods = <<<<"G", "E", "T">>>>,
                       !.contentType = <<"{", "{", "u", "r", "l", "}", "}">>, !.saveDir = <<"o", "/", "{", "{", "n", "a", "m", "e", "}", "}", "/">>,
                       !.extractJson = "false", !.includeRequestHeaders = TRUE]}

ScreenshotChoices ==
    {NoScreenshots,
     [NoScreenshots EXCEPT !.present = TRUE, !.isString = TRUE],
     [NoScreenshots EXCEPT !.present = TRUE, !.isString = TRUE, !.dir = <<"o", "/", "{", "{", "n", "a", "m", "e", "}", "}", "/">>],
     [NoScreenshots EXCEPT !.present = TRUE, !.dir = <<"o", "/", "{", "{", "n", "a", "m", "e", "}", "}", "/">>,
                           !.naming = <<"t", "i", "m", "e", "s", "t", "a", "m", "p">>]}

ConsoleChoices ==
    {NoConsole,
     [NoConsole EXCEPT !.present = TRUE, !.levels = <<<<"e", "r", "r", "o", "r">>>>,
                       !.saveAs = <<"o", "/", "{", "{", "n", "a", "m", "e", "}", "}", "/">>],
     [NoConsole EXCEPT !.present = TRUE, !.levels = <<<<"e", "r", "r", "o", "r">>>>,
                       !.pattern = <<"{", "{", "u", "r", "l", "}", "}">>, !.saveAs = <<"o", "/", "{", "{", "n", "a", "m", "e", "}", "}", "/">>]}

DataChoices == {<<>>, <<"o", "/", "{", "{", "n", "a", "m", "e", "}", "}", "/">>}

OutputDirChoices == {<<>>, <<"/", "o">>}

InitPrompt ==
    /\ \E task \in TaskChoices, network \in NetworkChoices,
          screenshots \in ScreenshotChoices, console \in ConsoleChoices,
          data \in DataChoices :
         bWorkflow = Definition(S_wf, TRUE, task, TRUE, <<>>, TRUE,
                                [network |-> network, screenshots |-> screenshots,
                                 console |-> console, data |-> data])
    /\ bParams \in PromptParamChoices
    /\ bOutputDir \in OutputDirChoices
    /\ bStage = "input"
    /\ bPrompt = <<>>

\* const prompt = buildPrompt(definition, validation.resolvedParams, { outputDir })
BuildPrompt ==
    /\ bStage = "input"
    /\ bPrompt' = buildPrompt(bWorkflow, bParams, bOutputDir)
    /\ bStage' = "built"
    /\ UNCHANGED <<bWorkflow, bParams, bOutputDir>>

\* A prompt builder that stays as it starts, for the other specifications
InitPromptIdle ==
    /\ bWorkflow = NoDefinition
    /\ bParams = <<>>
    /\ bOutputDir = <<>>
    /\ bStage = "input"
    /\ bPrompt = <<>>

(***************************************************************************)
(* CLI helper (part_003 681-715)                                           *)
(***************************************************************************)

\* A join that keeps the first part only
JoinStr_FirstOnly(parts, sep) == IF parts = <<>> THEN <<>> ELSE parts[1]

\* parts.join(sep) of strings
RECURSIVE JoinStr(_, _)
JoinStr(parts, sep) ==
    IF parts = <<>> THEN <<>>
    ELSE IF Len(parts) = 1 THEN parts[1]
    ELSE parts[1] \o sep \o JoinStr(Tail(parts), sep)

\* The second loop of extractParams, from index i (counted from 1)
RECURSIVE ExtractFrom(_, _, _)
ExtractFrom(args, i, params) ==
    IF i > Len(args) THEN params
    ELSE LET arg == args[i]
         IN  IF StartsWith(arg, <<"-", "-">>)
             THEN LET parts      == Split(SubSeq(arg, 3, Len(arg)), "=")
                      paramName  == parts[1]
                      valueParts == Tail(parts)
                  IN  IF Len(valueParts) > 0
                      THEN ExtractFrom(args, i + 1,
                               Put(params, paramName, Str(JoinStr(valueParts, <<"=">>))))
                      ELSE IF i + 1 <= Len(args) /\ ~StartsWith(args[i + 1], <<"-", "-">>)
                           THEN ExtractFrom(args, i + 2,
                                    Put(params, paramName, Str(args[i + 1])))
                           ELSE ExtractFrom(args, i + 1,
                                    Put(params, paramName, Bool(TRUE)))
             ELSE ExtractFrom(args, i + 1, params)

\* extractParams(args, skipFirst)
extractParams(args, skipFirst) ==
    LET at    == {i \in 1..Len(args) : args[i] = skipFirst}
        first == IF at = {} THEN Len(args) + 1
                 ELSE CHOOSE i \in at : \A j \in at : i <= j
    IN  ExtractFrom(args, first + 1, <<>>)

(***************************************************************************)
(* extractParams on its own: the tokens after the workflow name are drawn, *)
(* then extractParams is called with cmd.args and the workflow name.       *)
(***************************************************************************)

VARIABLES
    xArgs,     \* the tokens after the workflow name
    xStage,    \* "input" or "extracted"
    xParams    \* what extractParams returned

xvars == <<xArgs, xStage, xParams>>

MaxArgs == 3

\* --k, --k=v, --k=v=w, --f, v, --f=
ArgTokens ==
    {<<"-", "-", "k">>,
     <<"-", "-", "k", "=", "v">>,
     <<"-", "-", "k", "=", "v", "=", "w">>,
     <<"-", "-", "f">>,
     <<"v">>,
     <<"-", "-", "f", "=">>}

InitExtract ==
    /\ \E n \in 0..MaxArgs : xArgs \in [1..n -> ArgTokens]
    /\ xStage = "input"
    /\ xParams = <<>>

\* An extractParams that stays as it starts, for the other specifications
InitExtractIdle ==
    /\ xArgs = <<>>
    /\ xStage = "input"
    /\ xParams = <<>>

\* const params = extractParams(cmd.args, workflowName)
ExtractParams ==
    /\ xStage = "input"
    /\ xParams' = extractParams(<<S_wf>> \o xArgs, S_wf)
    /\ xStage' = "extracted"
    /\ UNCHANGED xArgs

(***************************************************************************)
(* ensureDir (prompt-builder.ts 425-429) in two runs at a time.  The       *)
(* directories are kept in the order they were made; a run is between its  *)
(* existsSync and its mkdir while its pc is "mkdir".                       *)
(***************************************************************************)

VARIABLES
    eDirs,     \* the directories, in the order they were made
    eTarget,   \* the directory each run ensures
    ePc,       \* "idle", or "mkdir" while the run's mkdir is in flight
    eCalls,    \* the calls of ensureDir each run has completed
    eMade,     \* the calls of mkdir each run has made
    eError     \* whether a call of the run threw

evars == <<eDirs, eTarget, ePc, eCalls, eMade, eError>>

MaxEnsureCalls == 2

EnsureRuns == {1, 2}

HasDir(dirs, dir) == \E i \in 1..Len(dirs) : dirs[i] = dir

\* The directories after dir's first k - 1 ancestors were seen to: each of the
\* others that is missing is made
RECURSIVE MakeFrom(_, _, _)
MakeFrom(dirs, dir, k) ==
    IF k > Len(dir) THEN dirs
    ELSE MakeFrom(IF HasDir(dirs, SubSeq(dir, 1, k)) THEN dirs
                  ELSE Append(dirs, SubSeq(dir, 1, k)),
                  dir, k + 1)

\* A mkdir without the recursive option: EEXIST when the directory is there,
\* ENOENT when its parent is not
mkdir_NotRecursive(dirs, dir) ==
    IF HasDir(dirs, dir) \/ (Len(dir) > 1 /\ ~HasDir(dirs, SubSeq(dir, 1, Len(dir) - 1)))
    THEN [dirs |-> dirs, error |-> TRUE]
    ELSE [dirs |-> Append(dirs, dir), error |-> FALSE]

\* mkdir(dir, { recursive: true }): makes what is missing, and does not fail
\* when the directory is there
mkdir(dirs, dir) == [dirs |-> MakeFrom(dirs, dir, 1), error |-> FALSE]

(***************************************************************************)
(* Runner (prompt-builder.ts 244-482) and the CLI's run command            *)
(* (part_003 500-540)                                                      *)
(*                                                                         *)
(* One run at a time: a caller starts it through the CLI, runWorkflow or   *)
(* executeWorkflow; each action is one stretch of code between two awaits  *)
(* or one event of the child process.  When the caller has its result a    *)
(* next run may start; the directories made so far stay.                   *)
(***************************************************************************)

VARIABLES
    phase,        \* where the run is: "Idle", "Requested", "ParamsInvalid",
                  \* "DryRun", "Ensuring" (mkdir in flight), "DirectoryReady",
                  \* "BackgroundStarted", "ForegroundRunning", "Succeeded",
                  \* "Failed", "Threw" (the call rejected)
    entry,        \* how the run was started: "cli", "runWorkflow", "executeWorkflow"
    req,          \* [nameOrPath, definition, options] of the call
    cliState,     \* the run command: "none", "loading", "awaiting", "exited"
    exitCode,     \* what process.exit was given; -1 before it is called
    defn,         \* the definition the run resolved
    outputDir,    \* the run's outputDir, a path; <<>> before it is known
    prompt,       \* what buildPrompt returned
    outcome,      \* the promise of the run: pending, or settled with a RunResult
    delivered,    \* whether the caller's await has returned or thrown
    dirs,         \* the directories that exist
    ensureCalls,  \* calls of ensureDir in this run
    mkdirCalls,   \* calls of mkdir in this run
    spawns,       \* calls of spawn in this run
    child,        \* the ChildProcess of the run
    stdout,       \* runForeground's stdout buffer
    stderr        \* runForeground's stderr buffer

rvars == <<phase, entry, req, cliState, exitCode, defn, outputDir, prompt, outcome,
           delivered, dirs, ensureCalls, mkdirCalls, spawns, child, stdout, stderr>>

vars == <<vvars, lvars, bvars, xvars, evars, rvars>>

\* The most data events a child's stderr and stdout emit.
MaxStderrChunks == 2
MaxStdoutChunks == 1

S_ok   == <<"o", "k">>
S_bad  == <<"b", "a", "d">>
S_raw  == <<"r", "a", "w">>
S_nope == <<"n", "o", "p", "e">>
S_count == <<"c", "o", "u", "n", "t">>
S_zz   == <<"z", "z">>
S_okPath == <<".", "/">> \o S_workflows \o <<"/">> \o S_ok \o S_ts
S_workDir == <<"/", "w", "d">>

\* The definition of ./workflows/ok.ts
OkDefinition ==
    Definition(S_ok, TRUE, <<"G", "o", " ", "{", "{", "u", "r", "l", "}", "}">>,
               TRUE, <<Entry(S_url, ParamDef("string", TRUE, Undefined)),
                       Entry(S_count, ParamDef("number", FALSE, Num(3)))>>,
               TRUE, NoCapture)

\* The default export of ./workflows/raw.ts: an object with a name and
\* nothing else
RawDefinition == Definition(S_raw, FALSE, <<>>, FALSE, <<>>, FALSE, NoCapture)

\* The workflow files of the run's world: ok.ts, bad.ts (no default export)
\* and raw.ts under ./workflows; the user-global root does not exist.
RunFs ==
    << [path |-> Cwd \o <<S_workflows>>, kind |-> "dir",
        export |-> Export("none", NoDefinition)],
       [path |-> Cwd \o <<S_workflows, S_ok \o S_ts>>, kind |-> "file",
        export |-> Export("definition", OkDefinition)],
       [path |-> Cwd \o <<S_workflows, S_bad \o S_ts>>, kind |-> "file",
        export |-> Export("none", NoDefinition)],
       [path |-> Cwd \o <<S_workflows, S_raw \o S_ts>>, kind |-> "file",
        export |-> Export("definition", RawDefinition)] >>

\* What callers ask for
Targets == {S_ok, S_bad, S_raw, S_nope, S_okPath}

\* options.params of the API callers: nothing, the required url, and the url
\* with a key the schema does not declare
ParamChoices ==
    {<<>>,
     <<Entry(S_url, Str(S_u))>>,
     <<Entry(S_url, Str(S_u)), Entry(S_zz, Str(S_x))>>}

\* The tokens after the workflow name on the command line
ArgChoices ==
    {<<>>,
     << <<"-", "-">> \o S_url, S_u >>,
     << <<"-", "-">> \o S_url \o <<"=">> \o S_u, <<"-", "-">> \o S_zz >>}

\* options.background: a boolean, or undefined when not given
BackgroundChoices == {Bool(TRUE), Bool(FALSE), Undefined}

\* options.workDir: <<>> when not given
WorkDirChoices == {<<>>, S_workDir}

Options(params, dryRun, background, workDir) ==
    [params |-> params, dryRun |-> dryRun, background |-> background,
     workDir |-> workDir]

NoRequest ==
    [nameOrPath |-> <<>>, definition |-> NoDefinition,
     options |-> Options(<<>>, FALSE, Undefined, <<>>)]

\* The error of a RunResult: the text the code writes, the characters it takes
\* from stderr, the exit code it interpolates, the lines of formatErrors.
ErrorText(text, chars, code, lines) ==
    [text |-> text, chars |-> chars, code |-> code, lines |-> lines]

NoErrorText == ErrorText("", <<>>, Undefined, <<>>)

\* A settled promise holding a RunResult; files is always {}
RunResult(success, dir, error, hasDuration) ==
    [settled |-> TRUE, success |-> success, outputDir |-> dir, files |-> <<>>,
     error |-> error, hasDuration |-> hasDuration]

Pending ==
    [settled |-> FALSE, success |-> FALSE, outputDir |-> <<>>, files |-> <<>>,
     error |-> NoErrorText, hasDuration |-> FALSE]

\* A promise that every call of resolve settles anew
resolvePromise_LastWins(promise, result) == result

\* resolve(result) of a promise: the first call settles it, later calls do
\* nothing
resolvePromise(promise, result) == IF promise.settled THEN promise ELSE result

NoChild ==
    [spawned |-> FALSE, detached |-> FALSE, stdio |-> "", unref |-> FALSE,
     listening |-> FALSE, prompt |-> <<>>, errorEmitted |-> FALSE, closed |-> FALSE,
     closeCode |-> Undefined, stderrChunks |-> 0, stdoutChunks |-> 0]

\* spawnClaude(prompt, {detached})
spawnClaude(promptArg, detached) ==
    [NoChild EXCEPT !.spawned = TRUE, !.detached = detached,
                    !.stdio = IF detached THEN "ignore" ELSE "pipe",
                    !.prompt = promptArg]

\* The exit codes a close event carries when the process ran: zero, non-zero,
\* and null for a process a signal ended.  After a failed spawn the close
\* event carries the negative errno of the failure.
ExitCodes == {Num(0), Num(1), Null}
SpawnErrno == Num(0 - 2)
SpawnErrorMessage == "spawn ENOENT"

DataChunks == {<<"E">>, <<"r">>}

\* The path as the string path.resolve returns
PathString(path) ==
    IF path = <<>> THEN <<"/">>
    ELSE <<"/">> \o JoinStr(path, <<"/">>)

\* resolve(workDir, 'output', definition.name)
OutputDirOf(workDir, name) ==
    Normalize(Resolve(Cwd, workDir), <<S_output>> \o Split(name, "/"))

\* A mkdir that makes nothing
WithParents_None(dir) == {}

\* mkdir(dir, {recursive: true}): dir and the directories above it
WithParents(dir) == {SubSeq(dir, 1, k) : k \in 1..Len(dir)}

InitRun ==
    /\ phase = "Idle"
    /\ entry = ""
    /\ req = NoRequest
    /\ cliState = "none"
    /\ exitCode = -1
    /\ defn = NoDefinition
    /\ outputDir = <<>>
    /\ prompt = <<>>
    /\ outcome = Pending
    /\ delivered = FALSE
    /\ dirs = {Cwd}
    /\ ensureCalls = 0
    /\ mkdirCalls = 0
    /\ spawns = 0
    /\ child = NoChild
    /\ stdout = <<>>
    /\ stderr = <<>>

\* A validator that stays as it starts, for the specification of the runner
InitValidateIdle ==
    /\ vSchema = <<>>
    /\ vRaw = <<>>
    /\ vStage = "input"
    /\ vCoerced = <<>>
    /\ vResult = [valid |-> FALSE, errors |-> <<>>, resolvedParams |-> <<>>]

\* The error of a failed validation without the list of formatErrors
ValidationFailed_NoList(errors) ==
    ErrorText("Parameter validation failed:\n", <<>>, Undefined, <<>>)

\* `Parameter validation failed:\n${formatErrors(validation.errors)}`
ValidationFailed(errors) ==
    ErrorText("Parameter validation failed:\n", <<>>, Undefined, formatErrors(errors))

\* runWorkflow from its coercion to its first await, which is all of
\* executeWorkflow to its first await: coerceParams and validateParams, the
\* early return on invalid parameters, buildPrompt, the early return of a dry
\* run, then ensureDir as far as its existsSync.  Reading params, task or
\* capture of a definition that has none throws a TypeError.
Proceed(definition, options) ==
    \E coerced \in {coerceParams(definition.params, options.params)} :
    \E validation \in {validateParams(definition, coerced)} :
    \E workDir \in {IF options.workDir # <<>> THEN options.workDir
                    ELSE PathString(Cwd)} :
    \E dir \in {OutputDirOf(workDir, definition.name)} :
        /\ defn' = definition
        /\ IF ~definition.hasParams
           THEN /\ phase' = "Threw"
                /\ UNCHANGED <<outcome, outputDir, prompt, ensureCalls, mkdirCalls>>
           ELSE IF ~validation.valid
           THEN /\ phase' = "ParamsInvalid"
                /\ outcome' = RunResult(FALSE, <<>>, ValidationFailed(validation.errors),
                                        FALSE)
                /\ UNCHANGED <<outputDir, prompt, ensureCalls, mkdirCalls>>
           ELSE IF ~definition.hasTask \/ ~definition.hasCapture
           THEN /\ phase' = "Threw"
                /\ outputDir' = dir
                /\ UNCHANGED <<outcome, prompt, ensureCalls, mkdirCalls>>
           ELSE \E built \in {buildPrompt(definition, validation.resolvedParams,
                                          PathString(dir))} :
                IF options.dryRun
                THEN /\ phase' = "DryRun"
                     /\ outputDir' = dir
                     /\ prompt' = built
                     /\ outcome' = RunResult(TRUE, dir, NoErrorText, TRUE)
                     /\ UNCHANGED <<ensureCalls, mkdirCalls>>
                ELSE /\ outputDir' = dir
                     /\ prompt' = built
                     /\ ensureCalls' = ensureCalls + 1
                     /\ mkdirCalls' = IF dir \in dirs THEN mkdirCalls
                                      ELSE mkdirCalls + 1
                     /\ phase' = IF dir \in dirs THEN "DirectoryReady" ELSE "Ensuring"
                     /\ UNCHANGED outcome

\* The run command's action up to `await getWorkflow(workflowName)`
CliRun ==
    /\ phase = "Idle" /\ entry = ""
    /\ \E name \in Targets, args \in ArgChoices, dryRun \in BOOLEAN,
          foreground \in BOOLEAN, workDir \in WorkDirChoices :
         req' = [nameOrPath |-> name, definition |-> NoDefinition,
                 options |-> Options(extractParams(<<name>> \o args, name),
                                     dryRun, Bool(~foreground), workDir)]
    /\ entry' = "cli"
    /\ cliState' = "loading"
    /\ UNCHANGED <<phase, exitCode, defn, outputDir, prompt, outcome, delivered, dirs,
                   ensureCalls, mkdirCalls, spawns, child, stdout, stderr>>

\* The run command after getWorkflow: its catch block when the lookup threw,
\* else the call of runWorkflow up to its own `await getWorkflow(nameOrPath)`
CliLoaded ==
    /\ cliState = "loading"
    /\ IF getWorkflow(RunFs, req.nameOrPath, <<>>).ok
       THEN /\ phase' = "Requested"
            /\ cliState' = "awaiting"
            /\ UNCHANGED exitCode
       ELSE /\ cliState' = "exited"
            /\ exitCode' = 1
            /\ UNCHANGED phase
    /\ UNCHANGED <<entry, req, defn, outputDir, prompt, outcome, delivered, dirs,
                   ensureCalls, mkdirCalls, spawns, child, stdout, stderr>>

\* runWorkflow(nameOrPath, options) called by a program, up to its
\* `await getWorkflow(nameOrPath)`
ApiRunWorkflow ==
    /\ phase = "Idle" /\ entry = ""
    /\ \E name \in Targets, params \in ParamChoices, dryRun \in BOOLEAN,
          background \in BackgroundChoices, workDir \in WorkDirChoices :
         req' = [nameOrPath |-> name, definition |-> NoDefinition,
                 options |-> Options(params, dryRun, background, workDir)]
    /\ entry' = "runWorkflow"
    /\ phase' = "Requested"
    /\ UNCHANGED <<cliState, exitCode, defn, outputDir, prompt, outcome, delivered, dirs,
                   ensureCalls, mkdirCalls, spawns, child, stdout, stderr>>

\* executeWorkflow(definition, options) called by a program, up to its first
\* await
ApiExecuteWorkflow ==
    /\ phase = "Idle" /\ entry = ""
    /\ \E params \in ParamChoices, dryRun \in BOOLEAN,
          background \in BackgroundChoices, workDir \in WorkDirChoices :
         /\ req' = [nameOrPath |-> <<>>, definition |-> OkDefinition,
                    options |-> Options(params, dryRun, background, workDir)]
         /\ Proceed(OkDefinition, Options(params, dryRun, background, workDir))
    /\ entry' = "executeWorkflow"
    /\ UNCHANGED <<cliState, exitCode, delivered, dirs, spawns, child, stdout, stderr>>

\* runWorkflow after getWorkflow: the call rejects when the lookup threw, else
\* it goes on to its next await
RunLoaded ==
    /\ phase = "Requested"
    /\ \E loaded \in {getWorkflow(RunFs, req.nameOrPath, <<>>)} :
           IF loaded.ok
           THEN Proceed(loaded.value.definition, req.options)
           ELSE /\ phase' = "Threw"
                /\ UNCHANGED <<defn, outcome, outputDir, prompt, ensureCalls, mkdirCalls>>
    /\ UNCHANGED <<entry, req, cliState, exitCode, delivered, dirs, spawns, child,
                   stdout, stderr>>

\* The mkdir of ensureDir completes: the directory and its parents exist
MkdirDone ==
    /\ phase = "Ensuring"
    /\ dirs' = dirs \cup WithParents(outputDir)
    /\ phase' = "DirectoryReady"
    /\ UNCHANGED <<entry, req, cliState, exitCode, defn, outputDir, prompt, outcome,
                   delivered, ensureCalls, mkdirCalls, spawns, child, stdout, stderr>>

\* The mkdir of ensureDir fails (no permission, a file in the way): ensureDir
\* rejects and with it the run
MkdirFails ==
    /\ phase = "Ensuring"
    /\ phase' = "Threw"
    /\ UNCHANGED <<entry, req, cliState, exitCode, defn, outputDir, prompt, outcome,
                   delivered, dirs, ensureCalls, mkdirCalls, spawns, child, stdout,
                   stderr>>

\* Background only when asked for: options.background === true
Background_OptIn(options) == options.background = Bool(TRUE)

\* const background = options.background !== false
Background(options) == options.background # Bool(FALSE)

\* runInBackground(prompt, outputDir, startTime)
runInBackground ==
    /\ phase = "DirectoryReady"
    /\ Background(req.options)
    /\ child' = [spawnClaude(prompt, TRUE) EXCEPT !.unref = TRUE]
    /\ spawns' = spawns + 1
    /\ outcome' = RunResult(TRUE, outputDir, NoErrorText, TRUE)
    /\ phase' = "BackgroundStarted"
    /\ UNCHANGED <<entry, req, cliState, exitCode, defn, outputDir, prompt, delivered,
                   dirs, ensureCalls, mkdirCalls, stdout, stderr>>

\* runForeground(prompt, outputDir, startTime): the promise's executor spawns
\* the child and attaches the listeners
runForeground ==
    /\ phase = "DirectoryReady"
    /\ ~Background(req.options)
    /\ child' = [spawnClaude(prompt, FALSE) EXCEPT !.listening = TRUE]
    /\ spawns' = spawns + 1
    /\ stdout' = <<>>
    /\ stderr' = <<>>
    /\ phase' = "ForegroundRunning"
    /\ UNCHANGED <<entry, req, cliState, exitCode, defn, outputDir, prompt, outcome,
                   delivered, dirs, ensureCalls, mkdirCalls>>

\* child.stderr.on('data'): only a child with piped stdio has the stream
ChildStderr ==
    /\ child.spawned /\ child.stdio = "pipe"
    /\ ~child.errorEmitted /\ ~child.closed
    /\ child.stderrChunks < MaxStderrChunks
    /\ \E data \in DataChunks : stderr' = stderr \o data
    /\ child' = [child EXCEPT !.stderrChunks = @ + 1]
    /\ UNCHANGED <<phase, entry, req, cliState, exitCode, defn, outputDir, prompt,
                   outcome, delivered, dirs, ensureCalls, mkdirCalls, spawns, stdout>>

\* child.stdout.on('data')
ChildStdout ==
    /\ child.spawned /\ child.stdio = "pipe"
    /\ ~child.errorEmitted /\ ~child.closed
    /\ child.stdoutChunks < MaxStdoutChunks
    /\ \E data \in DataChunks : stdout' = stdout \o data
    /\ child' = [child EXCEPT !.stdoutChunks = @ + 1]
    /\ UNCHANGED <<phase, entry, req, cliState, exitCode, defn, outputDir, prompt,
                   outcome, delivered, dirs, ensureCalls, mkdirCalls, spawns, stderr>>

\* The 'close' listener without the fallback text for an empty stderr
OnClose_StderrOnly(code) ==
    IF code = Num(0)
    THEN RunResult(TRUE, outputDir, NoErrorText, TRUE)
    ELSE RunResult(FALSE, outputDir, ErrorText("", stderr, Undefined, <<>>), TRUE)

\* What the 'close' listener of runForeground resolves the promise with
OnClose(code) ==
    IF code = Num(0)
    THEN RunResult(TRUE, outputDir, NoErrorText, TRUE)
    ELSE RunResult(FALSE, outputDir,
                   IF stderr # <<>> THEN ErrorText("", stderr, Undefined, <<>>)
                   ELSE ErrorText("Process exited with code ", <<>>, code, <<>>),
                   TRUE)

\* What the 'error' listener of runForeground resolves the promise with
OnError(message) ==
    RunResult(FALSE, outputDir, ErrorText(message, <<>>, Undefined, <<>>), TRUE)

\* The child emits 'error': the spawn failed.  Nothing listens to a
\* background child.
ChildError ==
    /\ child.spawned
    /\ ~child.errorEmitted /\ ~child.closed
    /\ child.stderrChunks = 0 /\ child.stdoutChunks = 0
    /\ child' = [child EXCEPT !.errorEmitted = TRUE]
    /\ outcome' = IF child.listening
                  THEN resolvePromise(outcome, OnError(SpawnErrorMessage))
                  ELSE outcome
    /\ UNCHANGED <<phase, entry, req, cliState, exitCode, defn, outputDir, prompt,
                   delivered, dirs, ensureCalls, mkdirCalls, spawns, stdout, stderr>>

\* The child emits 'close', once, after its output and after an 'error'
ChildClose ==
    /\ child.spawned
    /\ ~child.closed
    /\ \E code \in (IF child.errorEmitted THEN {SpawnErrno} ELSE ExitCodes) :
         /\ child' = [child EXCEPT !.closed = TRUE, !.closeCode = code]
         /\ outcome' = IF child.listening
                       THEN resolvePromise(outcome, OnClose(code))
                       ELSE outcome
    /\ UNCHANGED <<phase, entry, req, cliState, exitCode, defn, outputDir, prompt,
                   delivered, dirs, ensureCalls, mkdirCalls, spawns, stdout, stderr>>

\* A run command that exits with 1 whatever the result
ProcessExit_Failure(threw, result) == 1

\* The exit code of the run command: process.exit(0) for a result with
\* success, process.exit(1) for any other result and in the catch block
ProcessExit(threw, result) == IF ~threw /\ result.success THEN 0 ELSE 1

\* The caller's await of the run returns the RunResult or throws; the run
\* command then calls process.exit
Deliver ==
    /\ ~delivered
    /\ phase # "Idle"
    /\ outcome.settled \/ phase = "Threw"
    /\ delivered' = TRUE
    /\ phase' = IF phase \in {"BackgroundStarted", "ForegroundRunning"}
                THEN (IF outcome.success THEN "Succeeded" ELSE "Failed")
                ELSE phase
    /\ cliState' = IF entry = "cli" THEN "exited" ELSE cliState
    /\ exitCode' = IF entry = "cli" THEN ProcessExit(phase = "Threw", outcome)
                   ELSE exitCode
    /\ UNCHANGED <<entry, req, defn, outputDir, prompt, outcome, dirs, ensureCalls,
                   mkdirCalls, spawns, child, stdout, stderr>>

\* The caller is done with the run; the next one finds the directories made
NextRun ==
    /\ delivered \/ cliState = "exited"
    /\ phase' = "Idle"
    /\ entry' = ""
    /\ req' = NoRequest
    /\ cliState' = "none"
    /\ exitCode' = -1
    /\ defn' = NoDefinition
    /\ outputDir' = <<>>
    /\ prompt' = <<>>
    /\ outcome' = Pending
    /\ delivered' = FALSE
    /\ ensureCalls' = 0
    /\ mkdirCalls' = 0
    /\ spawns' = 0
    /\ child' = NoChild
    /\ stdout' = <<>>
    /\ stderr' = <<>>
    /\ UNCHANGED dirs

\* The output directories the two runs ensure: of one definition or of two
EnsureTargets == {<<S_output, S_wf>>, <<S_output, S_x>>}

\* Nothing is there, or the output directory, or also the directory of wf
InitEnsure ==
    /\ eDirs \in {<<>>, << <<S_output>> >>, << <<S_output>>, <<S_output, S_wf>> >>}
    /\ eTarget \in [EnsureRuns -> EnsureTargets]
    /\ ePc = [p \in EnsureRuns |-> "idle"]
    /\ eCalls = [p \in EnsureRuns |-> 0]
    /\ eMade = [p \in EnsureRuns |-> 0]
    /\ eError = [p \in EnsureRuns |-> FALSE]

\* No run ensures anything, for the other specifications
InitEnsureIdle ==
    /\ eDirs = <<>>
    /\ eTarget = [p \in EnsureRuns |-> <<>>]
    /\ ePc = [p \in EnsureRuns |-> "idle"]
    /\ eCalls = [p \in EnsureRuns |-> 0]
    /\ eMade = [p \in EnsureRuns |-> 0]
    /\ eError = [p \in EnsureRuns |-> FALSE]

\* ensureDir: if (!existsSync(dir)) await mkdir(...): up to the await
EnsureExists(p) ==
    /\ ePc[p] = "idle"
    /\ eCalls[p] < MaxEnsureCalls
    /\ IF HasDir(eDirs, eTarget[p])
       THEN /\ eCalls' = [eCalls EXCEPT ![p] = @ + 1]
            /\ UNCHANGED ePc
       ELSE /\ ePc' = [ePc EXCEPT ![p] = "mkdir"]
            /\ UNCHANGED eCalls
    /\ UNCHANGED <<eDirs, eTarget, eMade, eError>>

\* ensureDir: the mkdir is carried out and the call returns or throws
EnsureMkdir(p) ==
    /\ ePc[p] = "mkdir"
    /\ \E made \in {mkdir(eDirs, eTarget[p])} :
          /\ eDirs' = made.dirs
          /\ eError' = [eError EXCEPT ![p] = @ \/ made.error]
    /\ ePc' = [ePc EXCEPT ![p] = "idle"]
    /\ eCalls' = [eCalls EXCEPT ![p] = @ + 1]
    /\ eMade' = [eMade EXCEPT ![p] = @ + 1]
    /\ UNCHANGED eTarget

Init == InitValidateIdle /\ InitLoadIdle /\ InitPromptIdle /\ InitExtractIdle /\ InitEnsureIdle /\ InitRun

Next ==
    \/ CliRun /\ UNCHANGED <<vvars, lvars, bvars, xvars, evars>>
    \/ CliLoaded /\ UNCHANGED <<vvars, lvars, bvars, xvars, evars>>
    \/ ApiRunWorkflow /\ UNCHANGED <<vvars, lvars, bvars, xvars, evars>>
    \/ ApiExecuteWorkflow /\ UNCHANGED <<vvars, lvars, bvars, xvars, evars>>
    \/ RunLoaded /\ UNCHANGED <<vvars, lvars, bvars, xvars, evars>>
    \/ MkdirDone /\ UNCHANGED <<vvars, lvars, bvars, xvars, evars>>
    \/ MkdirFails /\ UNCHANGED <<vvars, lvars, bvars, xvars, evars>>
    \/ runInBackground /\ UNCHANGED <<vvars, lvars, bvars, xvars, evars>>
    \/ runForeground /\ UNCHANGED <<vvars, lvars, bvars, xvars, evars>>
    \/ ChildStderr /\ UNCHANGED <<vvars, lvars, bvars, xvars, evars>>
    \/ ChildStdout /\ UNCHANGED <<vvars, lvars, bvars, xvars, evars>>
    \/ ChildError /\ UNCHANGED <<vvars, lvars, bvars, xvars, evars>>
    \/ ChildClose /\ UNCHANGED <<vvars, lvars, bvars, xvars, evars>>
    \/ Deliver /\ UNCHANGED <<vvars, lvars, bvars, xvars, evars>>
    \/ NextRun /\ UNCHANGED <<vvars, lvars, bvars, xvars, evars>>

\* The runner
Spec == Init /\ [][Next]_vars

\* The runner with the scheduling of the event loop: a settled promise's
\* continuation runs
FairSpec == Spec /\ WF_vars(Deliver /\ UNCHANGED <<vvars, lvars, bvars, xvars, evars>>)

NextValidate ==
    \/ Coerce /\ UNCHANGED <<lvars, bvars, xvars, evars, rvars>>
    \/ ValidateCoerced /\ UNCHANGED <<lvars, bvars, xvars, evars, rvars>>
    \/ ValidateDirect /\ UNCHANGED <<lvars, bvars, xvars, evars, rvars>>

InitValidator == InitValidate /\ InitLoadIdle /\ InitPromptIdle /\ InitExtractIdle /\ InitEnsureIdle /\ InitRun

\* The validator
SpecValidate == InitValidator /\ [][NextValidate]_vars

NextLoad ==
    \/ CallDefineWorkflow /\ UNCHANGED <<vvars, bvars, xvars, evars, rvars>>
    \/ CallListWorkflows /\ UNCHANGED <<vvars, bvars, xvars, evars, rvars>>
    \/ CallLoadWorkflow /\ UNCHANGED <<vvars, bvars, xvars, evars, rvars>>
    \/ CallGetWorkflow /\ UNCHANGED <<vvars, bvars, xvars, evars, rvars>>

InitLoader == InitValidateIdle /\ InitLoad /\ InitPromptIdle /\ InitExtractIdle /\ InitEnsureIdle /\ InitRun

\* The loader
SpecLoad == InitLoader /\ [][NextLoad]_vars

NextPrompt == BuildPrompt /\ UNCHANGED <<vvars, lvars, xvars, evars, rvars>>

InitPrompter == InitValidateIdle /\ InitLoadIdle /\ InitPrompt /\ InitExtractIdle /\ InitEnsureIdle /\ InitRun

\* The prompt builder
SpecPrompt == InitPrompter /\ [][NextPrompt]_vars

NextExtract == ExtractParams /\ UNCHANGED <<vvars, lvars, bvars, evars, rvars>>

InitExtractor ==
    InitValidateIdle /\ InitLoadIdle /\ InitPromptIdle /\ InitExtract /\ InitEnsureIdle /\ InitRun

\* extractParams
SpecExtract == InitExtractor /\ [][NextExtract]_vars

NextEnsure ==
    \/ \E p \in EnsureRuns : EnsureExists(p) /\ UNCHANGED <<vvars, lvars, bvars, xvars, rvars>>
    \/ \E p \in EnsureRuns : EnsureMkdir(p) /\ UNCHANGED <<vvars, lvars, bvars, xvars, rvars>>

InitEnsurer ==
    InitValidateIdle /\ InitLoadIdle /\ InitPromptIdle /\ InitExtractIdle /\ InitEnsure /\ InitRun

\* ensureDir in two runs
SpecEnsure == InitEnsurer /\ [][NextEnsure]_vars

(***************************************************************************)
(* Claims about the loader                                                 *)
(***************************************************************************)

\* C19: defineWorkflow fails when the name or the task is missing or empty or
\* when params or capture is absent; what it returns has a non-empty name, a
\* task that is non-empty after trimming, params and capture, and differs
\* from what it was given in the trimmed task only.
C19_DefinedIsComplete ==
    lCall = "defineWorkflow" =>
        /\ (lArg.name = <<>> \/ ~lArg.hasTask \/ lArg.task = <<>>
              \/ ~lArg.hasParams \/ ~lArg.hasCapture) => ~lDefined.ok
        /\ lDefined.ok =>
              /\ lDefined.value.name # <<>>
              /\ lDefined.value.hasTask /\ lDefined.value.task # <<>>
              /\ lDefined.value.hasParams /\ lDefined.value.hasCapture
              /\ lDefined.value = [lArg EXCEPT !.task = Trim(lArg.task)]

\* The definition files under the roots that listWorkflows searches
ListedRoots == getWorkflowPaths(lFs, lPaths)

RootOf(path) ==
    CHOOSE i \in 1..Len(ListedRoots) :
        /\ StartsWith(path, ListedRoots[i])
        /\ \A j \in 1..(i - 1) : ~StartsWith(path, ListedRoots[j])

\* A path below root that enumeration reaches: a .ts file without the
\* exclusion marker, directly in the root or in a directory of the root that
\* is not hidden
Reached(path, root) ==
    /\ StartsWith(path, root)
    /\ LET rel == SubSeq(path, Len(root) + 1, Len(path))
       IN  /\ Len(rel) \in {1, 2}
           /\ EndsWith(rel[Len(rel)], S_ts)
           /\ ~StartsWith(rel[Len(rel)], <<"_">>)
           /\ Len(rel) = 2 => ~StartsWith(rel[1], <<".">>)

\* The files that enumeration reaches and that export a definition with a name
FilesUnderRoots ==
    {i \in 1..Len(lFs) :
        /\ lFs[i].kind = "file"
        /\ lFs[i].export.kind = "definition"
        /\ lFs[i].export.def.name # <<>>
        /\ \E r \in 1..Len(ListedRoots) : Reached(lFs[i].path, ListedRoots[r])}

\* C20: listWorkflows never returns two entries with the same declared name;
\* of the files that declare one name, the entry is from the earliest root;
\* the entries are in the order of the roots.
C20_OneEntryPerName ==
    lCall = "listWorkflows" =>
        /\ \A i, j \in 1..Len(lListed) :
              i # j => lListed[i].definition.name # lListed[j].definition.name
        /\ \A i \in 1..Len(lListed) :
              \E f \in FilesUnderRoots :
                  /\ lFs[f].path = lListed[i].filePath
                  /\ lFs[f].export.def = lListed[i].definition
        /\ \A f \in FilesUnderRoots :
              \E i \in 1..Len(lListed) :
                  /\ lListed[i].definition.name = lFs[f].export.def.name
                  /\ RootOf(lListed[i].filePath) <= RootOf(lFs[f].path)
        /\ \A i, j \in 1..Len(lListed) :
              i < j => RootOf(lListed[i].filePath) <= RootOf(lListed[j].filePath)

\* Two roots hold a file declaring the same name, and the list is returned
C20_Witness ==
    /\ lCall = "listWorkflows"
    /\ \E f, g \in FilesUnderRoots :
          /\ lFs[f].export.def.name = lFs[g].export.def.name
          /\ RootOf(lFs[f].path) < RootOf(lFs[g].path)
          /\ \E i \in 1..Len(lListed) : lListed[i].filePath = lFs[f].path
    /\ Len(lListed) = 2

\* A path of the file system named name.ts directly under a searched root or
\* in a directory of a searched root
FileNamed(name) ==
    \E i \in 1..Len(lFs), r \in 1..Len(ListedRoots) :
        /\ StartsWith(lFs[i].path, ListedRoots[r])
        /\ Len(lFs[i].path) - Len(ListedRoots[r]) \in {1, 2}
        /\ BaseName(lFs[i].path) = name \o S_ts

DeclaredUnderRoots(name) ==
    \E f \in FilesUnderRoots : lFs[f].export.def.name = name

\* C21: loadWorkflow fails with the not-found error, which lists the roots
\* searched, exactly when no searched root has name.ts directly or one level
\* deeper and no enumerated definition declares the name; otherwise it returns
\* a definition or fails with the error of a file that does not load.
C21_NotFoundExactly ==
    lCall = "loadWorkflow" =>
        /\ (~lLoaded.ok /\ lLoaded.error = "Workflow not found")
              <=> (~FileNamed(lTarget) /\ ~DeclaredUnderRoots(lTarget))
        /\ (~lLoaded.ok /\ lLoaded.error = "Workflow not found")
              => lLoaded.searched = ListedRoots
        /\ ~lLoaded.ok => lLoaded.error \in {"Workflow not found", "Failed to load workflow"}

\* A lookup failed with the not-found error although a file with another
\* name exists under the two roots searched
C21_Witness ==
    /\ lCall = "loadWorkflow"
    /\ ~lLoaded.ok /\ lLoaded.error = "Workflow not found"
    /\ Len(lLoaded.searched) = 2
    /\ FilesUnderRoots # {}

\* A file that does not export a definition with a name
NotADefinition(node) ==
    node.kind = "file" /\ (node.export.kind # "definition" \/ node.export.def.name = <<>>)

\* The file the filename search of name comes to first: in the first root
\* that has one, name.ts directly under the root, else name.ts in the first
\* directory of the root that has it; 0 when no root has one
FirstNamed(name) ==
    LET inRoot(r) ==
            {i \in 1..Len(lFs) :
                /\ StartsWith(lFs[i].path, ListedRoots[r])
                /\ Len(lFs[i].path) - Len(ListedRoots[r]) \in {1, 2}
                /\ BaseName(lFs[i].path) = name \o S_ts}
        roots == {r \in 1..Len(ListedRoots) : inRoot(r) # {}}
    IN  IF roots = {} THEN 0
        ELSE LET r == CHOOSE r \in roots : \A q \in roots : r <= q
                 direct == {i \in inRoot(r) : Len(lFs[i].path) = Len(ListedRoots[r]) + 1}
             IN  IF direct # {} THEN CHOOSE i \in direct : TRUE
                 ELSE CHOOSE i \in inRoot(r) : \A j \in inRoot(r) : i <= j

C23_LoadedIsWellFormed ==
    (lCall \in {"loadWorkflow", "getWorkflow"} /\ lLoaded.ok) =>
        /\ lLoaded.value.definition.name # <<>>
        /\ lLoaded.value.definition.hasTask /\ lLoaded.value.definition.task # <<>>
        /\ lLoaded.value.definition.hasParams
        /\ lLoaded.value.definition.hasCapture

\* C26: the lookup of a name returns what loading the first file of the
\* filename search gives, roots in order, in each root the file directly
\* under it before the one in a directory; only when no root has such a file
\* is the result a definition that declares the name.
C26_FilenameSearchOrder ==
    lCall = "loadWorkflow" =>
        IF FirstNamed(lTarget) # 0
        THEN /\ lLoaded.ok => lLoaded.value.filePath = lFs[FirstNamed(lTarget)].path
             /\ lLoaded.ok <=> ~NotADefinition(lFs[FirstNamed(lTarget)])
        ELSE lLoaded.ok =>
                /\ lLoaded.value.definition.name = lTarget
                /\ \E f \in FilesUnderRoots : lFs[f].path = lLoaded.value.filePath

\* Two roots have a file of the name looked up, and so has the hidden
\* directory of the first root; the file directly under the first root is
\* returned
C26_Witness ==
    /\ lCall = "loadWorkflow"
    /\ lLoaded.ok
    /\ Len(ListedRoots) = 2
    /\ \A r \in 1..2 : existsSync(lFs, ListedRoots[r] \o <<lTarget \o S_ts>>)
    /\ existsSync(lFs, ListedRoots[1] \o <<S_hidden, lTarget \o S_ts>>)
    /\ lLoaded.value.filePath = ListedRoots[1] \o <<lTarget \o S_ts>>

\* C27: every listed definition is a file directly in a root or in a
\* directory of a root, not in a hidden directory and without the exclusion
\* marker.
C27_BoundedScan ==
    lCall = "listWorkflows" =>
        \A i \in 1..Len(lListed) :
            \E r \in 1..Len(ListedRoots) : Reached(lListed[i].filePath, ListedRoots[r])

\* The list is returned for a file system with a hidden directory, a marked
\* file and a file three levels down
C27_Witness ==
    /\ lCall = "listWorkflows"
    /\ lListed # <<>>
    /\ existsSync(lFs, Cwd \o <<S_workflows, S_sub, S_deep, S_c \o S_ts>>)
    /\ existsSync(lFs, Cwd \o <<S_workflows, S_hidden, S_a \o S_ts>>)
    /\ existsSync(lFs, Cwd \o <<S_workflows, <<"_">> \o S_c \o S_ts>>)

\* C28 as stated: when the list has an entry with the name looked up,
\* loadWorkflow returns that entry, and what it returns declares that name
C28_LoadAgreesWithList ==
    lCall = "loadWorkflow" =>
        /\ \A i \in 1..Len(listWorkflows(lFs, lPaths)) :
              listWorkflows(lFs, lPaths)[i].definition.name = lTarget
                 => (lLoaded.ok /\ lLoaded.value = listWorkflows(lFs, lPaths)[i])
        /\ lLoaded.ok => lLoaded.value.definition.name = lTarget

\* C28: when no searched root has a file called name.ts, directly or one level
\* deeper, loadWorkflow returns the entry the list has for the name, and what
\* it returns declares the name; when a root has such a file, loadWorkflow
\* returns that file's definition, whatever name it declares.
C28_LoadAgreesWithListUnlessFile ==
    lCall = "loadWorkflow" =>
        IF FirstNamed(lTarget) = 0
        THEN /\ \A i \in 1..Len(listWorkflows(lFs, lPaths)) :
                   listWorkflows(lFs, lPaths)[i].definition.name = lTarget
                      => (lLoaded.ok /\ lLoaded.value = listWorkflows(lFs, lPaths)[i])
             /\ lLoaded.ok => lLoaded.value.definition.name = lTarget
        ELSE lLoaded.ok =>
                /\ lLoaded.value.filePath = lFs[FirstNamed(lTarget)].path
                /\ lLoaded.value.definition = lFs[FirstNamed(lTarget)].export.def

\* A name no file is called after is looked up, and the entry the list has
\* for it is returned
C28_Witness ==
    /\ lCall = "loadWorkflow"
    /\ FirstNamed(lTarget) = 0
    /\ lLoaded.ok
    /\ \E i \in 1..Len(listWorkflows(lFs, lPaths)) :
          lLoaded.value = listWorkflows(lFs, lPaths)[i]

(***************************************************************************)
(* Claims about the prompt builder                                         *)
(***************************************************************************)

BuiltContext == PromptContext(bWorkflow, bParams, bOutputDir)

\* The value of a placeholder written as it is, character for character
LiteralValue(value) ==
    IF value.t \in {"undefined", "null"} THEN <<>> ELSE StringOf(value)

\* A template with each {{x}} replaced by the literal value of x
RECURSIVE LiteralRender(_, _)
LiteralRender(template, context) ==
    LET open  == FindPair(template, 1, "{", "{")
        close == IF open = 0 THEN 0 ELSE FindPair(template, open + 2, "}", "}")
    IN  IF open = 0 \/ close = 0 THEN template
        ELSE SubSeq(template, 1, open - 1)
               \o LiteralValue(Get(context, Trim(SubSeq(template, open + 2, close - 1))))
               \o LiteralRender(SubSeq(template, close + 2, Len(template)), context)

\* C16: the prompt starts with the task in which each {{x}} is replaced by the
\* literal value of x, character for character, and by nothing when the
\* context has no x; no placeholder remains.
C16_LiteralSubstitution ==
    bStage = "built" =>
        /\ bPrompt[1] = Txt(LiteralRender(bWorkflow.task, BuiltContext))
        /\ FindPair(bPrompt[1].txt, 1, "{", "{") = 0

\* The capture block a piece of the prompt opens, "" for a piece that opens none
BlockOf(piece) ==
    CASE piece.lit = "\nNETWORK CAPTURE:" -> "network"
      [] piece.lit = "\nSCREENSHOTS:" -> "screenshots"
      [] piece.lit = "\nCONSOLE CAPTURE:" -> "console"
      [] piece.lit = "\nDATA EXTRACTION:\n- Save extracted data as JSON to: " -> "data"
      [] OTHER -> ""

RECURSIVE BlocksOf(_)
BlocksOf(text) ==
    IF text = <<>> THEN <<>>
    ELSE IF BlockOf(text[1]) # "" THEN <<BlockOf(text[1])>> \o BlocksOf(Tail(text))
    ELSE BlocksOf(Tail(text))

ClosingSection ==
    << Lit("---"), NewLine, Lit("OUTPUT FORMAT:"), NewLine,
       Lit("When complete, summarize:"), NewLine,
       Lit("- What was done"), NewLine,
       Lit("- Files saved (with paths)"), NewLine,
       Lit("- Any errors or issues encountered") >>

CaptureHeading == <<NewLine, NewLine, Lit("---"), NewLine, Lit("CAPTURE INSTRUCTIONS:"), NewLine>>

\* The layout of a prompt whose capture blocks are those of the sub-specs
\* network, screenshots, console, data for which the flags hold
PromptLayout(network, screenshots, console, data) ==
    LET blocks == When(network, <<"network">>) \o When(screenshots, <<"screenshots">>)
                    \o When(console, <<"console">>) \o When(data, <<"data">>)
        n      == Len(bPrompt)
    IN  /\ bPrompt[1] = Txt(renderTemplate(bWorkflow.task, BuiltContext))
        /\ BlocksOf(bPrompt) = blocks
        /\ n >= 14
        /\ SubSeq(bPrompt, n - 12, n) = <<NewLine, NewLine>> \o ClosingSection
        /\ IF blocks = <<>>
           THEN n = 14
           ELSE /\ n > 20
                /\ SubSeq(bPrompt, 2, 7) = CaptureHeading
                /\ BlockOf(bPrompt[8]) = blocks[1]

\* C17 as stated: a block for each capture sub-spec the definition has
C17_PromptLayoutAsStated ==
    bStage = "built" =>
        PromptLayout(bWorkflow.capture.network.present,
                     bWorkflow.capture.screenshots.present,
                     bWorkflow.capture.console.present,
                     bWorkflow.capture.data # <<>>)

\* C17: the prompt is the rendered task, then the capture blocks in the order
\* network, screenshots, console, data extraction, one for each sub-spec the
\* definition has, a screenshots sub-spec that is the empty string counting as
\* absent, and no capture section when there is no block, then the OUTPUT
\* FORMAT section.
C17_PromptLayout ==
    bStage = "built" =>
        PromptLayout(bWorkflow.capture.network.present,
                     /\ bWorkflow.capture.screenshots.present
                     /\ ~(bWorkflow.capture.screenshots.isString
                            /\ bWorkflow.capture.screenshots.dir = <<>>),
                     bWorkflow.capture.console.present,
                     bWorkflow.capture.data # <<>>)

\* A prompt was built with all four capture blocks
C17_Witness ==
    /\ bStage = "built"
    /\ BlocksOf(bPrompt) = <<"network", "screenshots", "console", "data">>
    /\ bWorkflow.capture.screenshots.dir # <<>>

\* The n pieces that follow the first piece lit of the prompt, <<>> when the
\* prompt has no such piece
PiecesAfter(lit, n) ==
    LET at == {i \in 1..Len(bPrompt) : bPrompt[i] = Lit(lit)}
    IN  IF at = {} THEN <<>>
        ELSE LET i == CHOOSE i \in at : \A j \in at : i <= j
             IN  SubSeq(bPrompt, i + 1, i + n)

Rendered(field) == Txt(renderTemplate(field, BuiltContext))

\* C18: every string field of the capture spec is written with its
\* placeholders rendered against the context of the task.
C18_CaptureFieldsRendered ==
    bStage = "built" =>
        LET capture == bWorkflow.capture
        IN  /\ capture.network.present =>
                /\ PiecesAfter("- Save responses to: ", 1)
                     = <<Rendered(capture.network.saveDir)>>
                /\ PiecesAfter("- Monitor network requests matching: ",
                               2 * Len(capture.network.patterns) - 1)
                     = JoinTxt([i \in 1..Len(capture.network.patterns) |->
                                   renderTemplate(capture.network.patterns[i], BuiltContext)],
                               ", ")
                /\ capture.network.contentType # <<>> =>
                     PiecesAfter("- Only capture content type: ", 1)
                       = <<Rendered(capture.network.contentType)>>
            /\ (capture.screenshots.present /\ capture.screenshots.dir # <<>>) =>
                PiecesAfter("- Save to: ", 1) = <<Rendered(capture.screenshots.dir)>>
            /\ capture.console.present =>
                /\ \E i \in 1..Len(bPrompt) :
                      /\ BlockOf(bPrompt[i]) = "console"
                      /\ \E j \in (i + 1)..(Len(bPrompt) - 1) :
                            /\ bPrompt[j] = Lit("- Save to: ")
                            /\ bPrompt[j + 1] = Rendered(capture.console.saveAs)
                /\ capture.console.pattern # <<>> =>
                     PiecesAfter("- Filter messages matching: ", 1)
                       = <<Rendered(capture.console.pattern)>>
            /\ capture.data # <<>> =>
                PiecesAfter("\nDATA EXTRACTION:\n- Save extracted data as JSON to: ", 1)
                  = <<Rendered(capture.data)>>

\* C29: a task that writes {{name}} and {{outputDir}} shows the definition's
\* name and the output directory, whatever the parameters are called; a
\* capture path with {{name}} shows the definition's name.
C29_InjectedWin ==
    bStage = "built" =>
        LET expectedDir == IF bOutputDir # <<>> THEN bOutputDir
                         ELSE <<".", "/">> \o S_output \o <<"/">> \o bWorkflow.name
        IN  /\ bWorkflow.task
                  = <<"{", "{">> \o S_name \o <<"}", "}", ":", "{", "{", " ">>
                      \o S_outputDir \o <<" ", "}", "}">>
                 => bPrompt[1] = Txt(bWorkflow.name \o <<":">> \o expectedDir)
            /\ bWorkflow.capture.data # <<>> =>
                  PiecesAfter("\nDATA EXTRACTION:\n- Save extracted data as JSON to: ", 1)
                    = <<Txt(<<"o", "/">> \o bWorkflow.name \o <<"/">>)>>

\* A prompt was built from a task with both placeholders and parameters
\* called name and outputDir
C29_Witness ==
    /\ bStage = "built"
    /\ HasKey(bParams, S_name) /\ HasKey(bParams, S_outputDir)
    /\ Get(bParams, S_name) # Str(bWorkflow.name)
    /\ FindPair(bWorkflow.task, 1, "{", "{") = 1
    /\ Len(bWorkflow.task) > 20
    /\ bPrompt[1] = Txt(bWorkflow.name \o <<":", "/", "o">>)

(***************************************************************************)
(* Claims about extractParams and ensureDir                                *)
(***************************************************************************)

\* The tokens that start with two dashes
FlagTokens == {i \in 1..Len(xArgs) : StartsWith(xArgs[i], <<"-", "-">>)}

\* Where the first = of a token is; 0 when it has none
FirstEquals(token) ==
    LET at == {i \in 1..Len(token) : token[i] = "="}
    IN  IF at = {} THEN 0 ELSE CHOOSE i \in at : \A j \in at : i <= j

KeyOfToken(token) ==
    IF FirstEquals(token) = 0 THEN SubSeq(token, 3, Len(token))
    ELSE SubSeq(token, 3, FirstEquals(token) - 1)

\* What the token at i gives its key: the text after its first =, else the
\* next token when that is no -- token, else true
ValueOfToken(i) ==
    IF FirstEquals(xArgs[i]) # 0
    THEN Str(SubSeq(xArgs[i], FirstEquals(xArgs[i]) + 1, Len(xArgs[i])))
    ELSE IF i < Len(xArgs) /\ i + 1 \notin FlagTokens
         THEN Str(xArgs[i + 1])
    ELSE Bool(TRUE)

\* C25 as stated: one entry for every -- token, with the value of that token
C25_OneEntryPerToken ==
    xStage = "extracted" =>
        /\ Len(xParams) = Cardinality(FlagTokens)
        /\ \A i \in FlagTokens :
              /\ HasKey(xParams, KeyOfToken(xArgs[i]))
              /\ Get(xParams, KeyOfToken(xArgs[i])) = ValueOfToken(i)

\* C25: --key value and --key=value give key the string value, everything
\* after the first = being kept, a --flag that is last or followed by a --
\* token gives true; there is one entry for every key, with the value of the
\* last -- token that has the key.
C25_OneEntryPerKey ==
    xStage = "extracted" =>
        /\ Len(xParams) = Cardinality({KeyOfToken(xArgs[i]) : i \in FlagTokens})
        /\ \A j \in 1..Len(xParams) :
              \E i \in FlagTokens : xParams[j].key = KeyOfToken(xArgs[i])
        /\ \A i \in FlagTokens :
              (\A k \in FlagTokens :
                   KeyOfToken(xArgs[k]) = KeyOfToken(xArgs[i]) => k <= i)
                 => /\ HasKey(xParams, KeyOfToken(xArgs[i]))
                    /\ Get(xParams, KeyOfToken(xArgs[i])) = ValueOfToken(i)

\* --k=v=w --f v --f was extracted: k is v=w and f, given twice, is true
C25_Witness ==
    /\ xStage = "extracted"
    /\ Len(xArgs) = 3
    /\ FirstEquals(xArgs[1]) # 0
    /\ Get(xParams, <<"k">>) = Str(<<"v", "=", "w">>)
    /\ Get(xParams, <<"f">>) = Bool(TRUE)
    /\ Len(xParams) = 2

\* C24: no call of ensureDir throws, and after a run's call returned its
\* directory is there, once; no directory is there twice.
C24_EnsureIdempotent ==
    /\ \A p \in EnsureRuns :
          /\ ~eError[p]
          /\ eCalls[p] > 0 =>
                Cardinality({i \in 1..Len(eDirs) : eDirs[i] = eTarget[p]}) = 1
    /\ \A i, j \in 1..Len(eDirs) : i # j => eDirs[i] # eDirs[j]

\* Both runs ensured the same directory, each found it missing and called
\* mkdir, and one of them ensured it a second time
C24_Witness ==
    /\ eTarget[1] = eTarget[2]
    /\ eMade[1] = 1 /\ eMade[2] = 1
    /\ eCalls[1] = 2 /\ eCalls[2] = 1
    /\ \A p \in EnsureRuns : ePc[p] = "idle" /\ ~eError[p]

(***************************************************************************)
(* Claims about the runner                                                 *)
(***************************************************************************)

\* What the run's coercion and validation give for the request at hand
RunValidation == validateParams(defn, coerceParams(defn.params, req.options.params))

\* The run has gone past the lookup of its definition
Started == phase \notin {"Idle", "Requested"}

\* No ensureDir, no mkdir and no spawn in this run
NoSideEffect ==
    /\ ensureCalls = 0
    /\ mkdirCalls = 0
    /\ spawns = 0
    /\ ~child.spawned

\* C1: a run whose definition does not resolve ends by an exception, and a run
\* whose parameters do not validate ends with success=false and the formatted
\* validation errors; in both ensureDir was not called and nothing was
\* spawned.
C1_FailuresBeforeSideEffects ==
    /\ (Started /\ entry = "runWorkflow"
          /\ ~getWorkflow(RunFs, req.nameOrPath, <<>>).ok) =>
            /\ phase = "Threw"
            /\ ~outcome.settled
            /\ NoSideEffect
    /\ (Started /\ defn.hasParams /\ ~RunValidation.valid) =>
            /\ phase = "ParamsInvalid"
            /\ outcome.settled /\ ~outcome.success
            /\ outcome.outputDir = <<>>
            /\ outcome.error =
                   [text  |-> "Parameter validation failed:\n", chars |-> <<>>,
                    code  |-> Undefined,
                    lines |-> formatErrors(RunValidation.errors)]
            /\ Len(outcome.error.lines) > 0
            /\ NoSideEffect

\* C1's case: executeWorkflow returned the result of a failed validation
C1_Witness ==
    /\ phase = "ParamsInvalid"
    /\ entry = "executeWorkflow"
    /\ delivered
    /\ ~outcome.success
    /\ Len(outcome.error.lines) = 1

\* C2: a dry run of a valid definition with valid parameters returns
\* success=true with no mkdir and no spawn, whatever options.background is,
\* and the run command exits with code 0.
C2_DryRunNoSideEffects ==
    (/\ Started
     /\ req.options.dryRun
     /\ defn.hasParams /\ defn.hasTask /\ defn.hasCapture
     /\ RunValidation.valid) =>
        /\ phase = "DryRun"
        /\ outcome.settled /\ outcome.success
        /\ outcome.outputDir = outputDir
        /\ NoSideEffect
        /\ (entry = "cli" /\ cliState = "exited") => exitCode = 0

\* C2's case: `run ok --url u --dry-run --foreground` has exited
C2_Witness ==
    /\ phase = "DryRun"
    /\ entry = "cli"
    /\ cliState = "exited"
    /\ req.options.background = Bool(FALSE)
    /\ exitCode = 0

\* The order of the states of a run.  "Ensuring" is the await of ensureDir's
\* mkdir, on the way to DirectoryReady; "Threw" is a run ended by an
\* exception; "Idle" is no run.
RunOrder ==
    {<<"Idle", "Requested">>}
    \cup ({"Idle", "Requested"}
            \X {"ParamsInvalid", "DryRun", "Ensuring", "DirectoryReady", "Threw"})
    \cup {<<"Ensuring", "DirectoryReady">>, <<"Ensuring", "Threw">>,
          <<"DirectoryReady", "BackgroundStarted">>,
          <<"DirectoryReady", "ForegroundRunning">>,
          <<"BackgroundStarted", "Succeeded">>,
          <<"ForegroundRunning", "Succeeded">>,
          <<"ForegroundRunning", "Failed">>}
    \cup ({"ParamsInvalid", "DryRun", "Threw", "Succeeded", "Failed"} \X {"Idle"})

\* C3: a run goes through Requested, then ParamsInvalid, DryRun or
\* DirectoryReady, then BackgroundStarted or ForegroundRunning, then Succeeded
\* or Failed, in that order; a process is spawned only in DirectoryReady,
\* after ensureDir, with <workDir>/output/<name> existing; and a failure of
\* the execution phase is reported only with that directory existing.
C3_RunOrder ==
    /\ [][phase' # phase => <<phase, phase'>> \in RunOrder]_vars
    /\ [][spawns' > spawns =>
            /\ phase = "DirectoryReady"
            /\ ensureCalls > 0
            /\ outputDir \in dirs]_vars
    /\ [](child.spawned =>
            /\ ensureCalls > 0
            /\ outputDir \in dirs
            /\ outputDir =
                 Normalize(Resolve(Cwd, IF req.options.workDir # <<>>
                                        THEN req.options.workDir
                                        ELSE PathString(Cwd)),
                           <<S_output, defn.name>>))
    /\ []((phase \in {"ForegroundRunning", "Failed"}
             /\ outcome.settled /\ ~outcome.success) =>
            /\ outputDir \in dirs
            /\ outcome.outputDir = outputDir)

\* C3's case: a foreground run whose spawn failed has reported it, in the
\* directory the run made
C3_Witness ==
    /\ phase = "Failed"
    /\ child.errorEmitted
    /\ mkdirCalls = 1
    /\ outputDir \in dirs
    /\ ~outcome.success

\* The run is a foreground run whose child has emitted one of the two events
\* runForeground listens to
ForegroundEvent == child.listening /\ (child.errorEmitted \/ child.closed)

\* C4 as stated: success exactly for a close with code zero; a close with any
\* other code gives success=false with the buffered stderr as the error; a
\* failed spawn gives success=false with the spawn error's message.
C4_ForegroundOutcomeAsStated ==
    (child.listening /\ outcome.settled) =>
        /\ outcome.success <=> (child.closed /\ child.closeCode = Num(0))
        /\ (~child.errorEmitted /\ child.closed /\ child.closeCode # Num(0)) =>
              /\ ~outcome.success
              /\ outcome.error = [text |-> "", chars |-> stderr,
                                  code |-> Undefined, lines |-> <<>>]
        /\ child.errorEmitted =>
              /\ ~outcome.success
              /\ outcome.error = [text |-> SpawnErrorMessage, chars |-> <<>>,
                                  code |-> Undefined, lines |-> <<>>]

\* C4, amended: as stated, but after a close with a code other than zero the
\* error is the buffered stderr only when it is not empty, and else the text
\* "Process exited with code <code>".
C4_ForegroundOutcome ==
    (child.listening /\ outcome.settled) =>
        /\ outcome.success <=> (child.closed /\ child.closeCode = Num(0))
        /\ outcome.success => outcome.error = NoErrorText
        /\ (~child.errorEmitted /\ child.closed /\ child.closeCode # Num(0)) =>
              /\ ~outcome.success
              /\ outcome.error =
                   IF stderr # <<>>
                   THEN [text |-> "", chars |-> stderr,
                         code |-> Undefined, lines |-> <<>>]
                   ELSE [text |-> "Process exited with code ", chars |-> <<>>,
                         code |-> child.closeCode, lines |-> <<>>]
        /\ child.errorEmitted =>
              /\ ~outcome.success
              /\ outcome.error = [text |-> SpawnErrorMessage, chars |-> <<>>,
                                  code |-> Undefined, lines |-> <<>>]

\* C4's case: the child of a foreground run wrote nothing to stderr and was
\* ended by a signal
C4_Witness ==
    /\ child.listening
    /\ child.closed /\ child.closeCode = Null
    /\ ~child.errorEmitted
    /\ stderr = <<>>
    /\ outcome.settled /\ ~outcome.success

\* C5: a foreground run has an outcome exactly when its child has emitted
\* 'close' or 'error'; the outcome, once there, is not replaced by a later
\* event; and the caller gets it once an event was emitted.
C5_ForegroundOutcomeOnce ==
    /\ [](child.listening => (outcome.settled <=> ForegroundEvent))
    /\ [](child.listening /\ delivered => ForegroundEvent)
    /\ [][(child.listening /\ outcome.settled /\ child'.listening) =>
            outcome' = outcome]_vars
    /\ (ForegroundEvent ~> delivered)

\* C5's case: the child emitted 'error' and then 'close', and the caller has
\* the outcome of the first
C5_Witness ==
    /\ child.listening
    /\ child.errorEmitted /\ child.closed
    /\ delivered
    /\ outcome.error.text = SpawnErrorMessage

\* C6: a run is a background run unless options.background is false; its
\* child is detached and un-referenced and nothing listens to it; its outcome
\* is there with the spawn, success=true with the output directory and no
\* files, and stays that whatever the child does.
C6_BackgroundReturnsAtOnce ==
    /\ child.spawned => (child.detached <=> req.options.background # Bool(FALSE))
    /\ child.detached =>
          /\ child.unref
          /\ child.stdio = "ignore"
          /\ ~child.listening
          /\ phase \in {"BackgroundStarted", "Succeeded"}
          /\ outcome = [settled |-> TRUE, success |-> TRUE,
                        outputDir |-> outputDir, files |-> <<>>,
                        error |-> NoErrorText, hasDuration |-> TRUE]

\* C6's case: a run with no options.background has returned, and its child
\* then failed to start
C6_Witness ==
    /\ child.detached
    /\ req.options.background = Undefined
    /\ child.errorEmitted /\ child.closed
    /\ delivered
    /\ outcome.success

====
